---- MODULE Spec2Model ----
(***************************************************************************)
(* GodTabs background service worker (src/background.js): the resilience   *)
(* subsystem.  This module models the auto-save scheduler                  *)
(* (initializeAutoSave, createWorkspaceSnapshot, handleAutoSaveFailure,    *)
(* triggerManualAutoSave, handleAutoSaveSettingsChange), the snapshot      *)
(* store (validateWorkspaceSnapshot, saveWorkspaceSnapshotAtomic,          *)
(* cleanupFailedSnapshot) and the persistent store they share.             *)
(*                                                                         *)
(* Execution model: one event loop.  Every `await` of a chrome.storage or  *)
(* chrome.tabs call is a suspension point; an action below is the effect   *)
(* of the awaited call together with the synchronous continuation that     *)
(* runs up to the next await.  Every awaited call may reject, and the       *)
(* process may be killed between any two actions.                          *)
(*                                                                         *)
(* Time is Date.now() in milliseconds.                                     *)
(*                                                                         *)
(* src/background.js reads and writes isAutoSaveInProgress and             *)
(* lastAutoSaveAttempt but declares neither.  The model carries both       *)
(* possibilities: flagsDeclared = FALSE is the file as it stands (the read *)
(* at the debounce check throws a ReferenceError), flagsDeclared = TRUE is *)
(* the file with the two declarations the design describes (false, 0).     *)
(***************************************************************************)
EXTENDS Integers, Sequences, FiniteSets, TLC

(***************************************************************************)
(* Program constants.                                                      *)
(***************************************************************************)
AUTO_SAVE_DEBOUNCE_MS == 5000
MAX_CONSECUTIVE_FAILURES == 3
FAILURE_TIMEOUT_MS == 300000
\* initializeAutoSave: Math.max(settings.autoSaveInterval || 60, 10), in seconds
DEFAULT_INTERVAL_S == 60
MIN_INTERVAL_S == 10
\* the largest delay in milliseconds that setInterval takes as it is: its
\* argument is converted to a signed 32-bit integer
MAX_DELAY_MS == 2147483647
\* saveWorkspaceSnapshotAtomic: Math.max(settings.maxAutoSaveSnapshots || 10, 1)
DEFAULT_MAX_SNAPSHOTS == 10
MIN_MAX_SNAPSHOTS == 1
\* validateWorkspaceSnapshot: maxTabs, maxWorkspaces
MAX_TABS == 1000
MAX_WORKSPACES == 100
\* cleanupAutoSaveData: maxAgeHours = 24
MAX_AGE_HOURS == 24
\* saveCurrentWorkspace: settings.maxWorkspaces || 20
DEFAULT_MAX_WORKSPACES == 20
\* initializeInactiveTabCleanup: checkInterval; processInactiveTabsForSuspension: delay
CHECK_INTERVAL_MS == 300000
SUSPEND_DELAY_MS == 3000
\* checkAndCloseInactiveTabs: settings.inactiveTabTimeoutMinutes || 60
DEFAULT_TIMEOUT_MINUTES == 60
MAX_AGE_MS == MAX_AGE_HOURS * 60 * 60 * 1000

(***************************************************************************)
(* Bounds of the model.                                                    *)
(***************************************************************************)
\* Date.now() when the script is first loaded
StartTime == 100000000
\* clock steps in a scheduler run (Spec), and its inputs from outside: rejected
\* platform calls, manual triggers, saved settings, settings-change messages
MaxAdvances == 3
MaxInputs == 2
\* the same for a store run (StoreSpec), where a process kill is an input too
StoreAdvances == 1
StoreInputs == 2
\* clock steps and rejected platform calls in an unattended run (LiveSpec)
LiveAdvances == 3
LiveInputs == 1
RecAdvances == 1
RecInputs == 4
\* settings.maxWorkspaces as stored in a recovery run
StoredMaxWorkspaces == 2

\* clock steps and events from outside (tab events, rejected discards) in a
\* run of the inactivity monitor (TabSpec)
TabAdvances == 2
TabInputs == 1
\* events from outside (onSuspend, rejected storage calls) in a run with
\* shutdowns during cycles (ShutSpec)
ShutInputs == 2
ShutAdvances == 1
\* settings changes, messages and rejected reads in a run of the
\* initialization over the configured intervals (PeriodSpec)
PeriodInputs == 2
\* characters of a hostname and of the base domain of a rule (MatchSpec)
MaxHostLen == 5
MaxBaseLen == 3

\* concurrent activations of createWorkspaceSnapshot the model can hold
Slots == {1, 2}
OpSlots == {1, 2}
\* valid tabs open when a workspace is saved or a snapshot taken
TabCounts == {1}
\* valid tabs open when a snapshot is taken
SnapshotTabCounts == {0, 1}
\* tab ids of the Tab Platform in the order chrome.tabs.query returns them, and
\* listener calls the model can hold at once
TabIds == {1, 2}
TabOrder == <<1, 2>>
HandlerSlots == {1, 2}

Max(a, b) == IF a >= b THEN a ELSE b

VARIABLES
  \* ---- clock and environment budgets
  now,                    \* Date.now()
  advances,               \* clock steps taken
  inputs,                 \* inputs from outside so far
  kills,                  \* process kills so far: the number of this lifetime
  limit,                  \* the budgets of this run (constant)
  \* ---- persistent store (survives a kill)
  settings,               \* chrome.storage.sync 'settings'
  autoSaveSnapshots,      \* chrome.storage.local 'autoSaveSnapshots'
  tempKeys,               \* ids s for which key temp_snapshot_<s> exists
  \* ---- service-worker memory (lost on a kill)
  flagsDeclared,          \* whether isAutoSaveInProgress/lastAutoSaveAttempt are bound
  autoSaveTimer,          \* TRUE: it holds the handle of a setInterval
  intervals,              \* setInterval timers of initializeAutoSave not yet cleared
  autoSaveInitMutex,
  isAutoSaveInProgress,
  lastAutoSaveAttempt,
  autoSaveFailureCount,
  autoSaveDisabledUntil,
  tickPending,            \* the interval fired; its setTimeout(..., 0) is queued
  reenableTimers,         \* due times of the setTimeout(initializeAutoSave, FAILURE_TIMEOUT_MS)
  initPc,                 \* initializeAutoSave: "idle" | "get" | "resume"
  initRead,               \* what its settings read returned
  cyc,                    \* activations of createWorkspaceSnapshot, by slot
  manualResult,           \* last response of triggerManualAutoSave
  started,                \* chrome.runtime.onStartup has run in this lifetime
  \* ---- workspaces and crash recovery
  workspaces,             \* chrome.storage.local 'workspaces'
  extensionRunning,       \* chrome.storage.local 'extensionRunning' is set
  recoverySettings,       \* the crash-recovery fields of 'settings'
  startup,                \* the onStartup or onSuspend listener: its position and locals
  ops,                    \* workspace operations in flight, by slot
  \* ---- inactivity monitor
  tabs,                   \* the Tab Platform: open, active, discarded, by tab id
  tabSettings,            \* the inactive-tab fields of 'settings'
  tabActivity,            \* chrome.storage.local 'tabActivity'
  localQueue,             \* chrome.storage.local calls on 'tabActivity' not yet served
  handlers,               \* updateTabActivity / cleanupTabActivity calls of listeners, by slot
  sweep,                  \* checkAndCloseInactiveTabs: its position and locals
  susp,                   \* suspendInactiveTabs: its position and locals
  match,                  \* one call of shouldExcludeFromAutoClose: its arguments and result
  inactiveTabsTimer,      \* TRUE: it holds the handle of the sweep's setInterval
  \* ---- history (not read by the program)
  hist,
  lives,                  \* this lifetime and the one before it
  discards                \* calls of chrome.tabs.discard by the running suspendInactiveTabs

envVars   == <<now, advances, inputs, kills, limit>>
storeVars == <<settings, autoSaveSnapshots, tempKeys>>
failVars  == <<autoSaveFailureCount, autoSaveDisabledUntil>>
memVars   == <<flagsDeclared, autoSaveTimer, intervals, autoSaveInitMutex, isAutoSaveInProgress,
               lastAutoSaveAttempt, autoSaveFailureCount, autoSaveDisabledUntil,
               tickPending, reenableTimers, initPc, initRead, cyc, manualResult,
               started>>
recVars   == <<workspaces, extensionRunning, recoverySettings, startup, ops, lives>>
monVars   == <<tabs, tabSettings, tabActivity, localQueue, handlers, sweep, susp, match,
               inactiveTabsTimer, discards>>
vars == <<envVars, storeVars, memVars, hist, recVars, monVars>>

(***************************************************************************)
(* Values.                                                                 *)
(***************************************************************************)
\* settings.maxAutoSaveSnapshots as stored: 0 stands for every falsy value
\* (missing, 0, NaN from parseInt), -1 for a negative number
MaxSnapshotValues == {-1, 0, 2}
SettingsValues == [autoSaveEnabled : BOOLEAN, maxAutoSaveSnapshots : MaxSnapshotValues,
                   autoSaveInterval : {DEFAULT_INTERVAL_S}]
NoSettings == [autoSaveEnabled |-> FALSE, maxAutoSaveSnapshots |-> 0,
               autoSaveInterval |-> DEFAULT_INTERVAL_S]
\* settings.autoSaveInterval as the options page can store it (parseInt of a
\* text field): 0 stands for every falsy value (0, NaN); the last two values
\* are the seconds around MAX_DELAY_MS
IntervalValues == {0 - 5, 0, 5, 10, 60, 3600, MAX_DELAY_MS \div 1000, MAX_DELAY_MS \div 1000 + 1}
PeriodSettings == [autoSaveEnabled : BOOLEAN, maxAutoSaveSnapshots : {0},
                   autoSaveInterval : IntervalValues]

\* what chrome.tabs.query and storage 'workspaces' hand to a cycle: tabs and
\* workspaces at the ceilings, one tab too many, one workspace too many, a
\* stored `workspaces` that is not an array
AtCeilings == [nTabs |-> MAX_TABS, ws |-> [isArray |-> TRUE, n |-> MAX_WORKSPACES]]
TooManyTabs == [AtCeilings EXCEPT !.nTabs = MAX_TABS + 1]
Gathered == {AtCeilings,
             TooManyTabs,
             [AtCeilings EXCEPT !.ws = [isArray |-> TRUE, n |-> MAX_WORKSPACES + 1]],
             [AtCeilings EXCEPT !.ws = [isArray |-> FALSE, n |-> 0]]}

RequiredFields == {"id", "timestamp", "sessionId", "version", "workspaces", "tabs", "metadata"}

\* the object createWorkspaceSnapshot builds at step 4 from what it gathered;
\* validTabs keeps only tabs that have a url
BuildSnapshot(id, ts, g) ==
  [fields |-> RequiredFields, id |-> id, timestamp |-> ts,
   workspacesIsArray |-> g.ws.isArray, nWorkspaces |-> g.ws.n,
   tabsIsArray |-> TRUE, nTabs |-> g.nTabs, tabsHaveUrl |-> TRUE]

\* snapshots found in the store when the script is first loaded: newest first,
\* written by earlier lifetimes; the last one is older than the maximum age
PriorTimestamp(i, n) == IF i = n THEN StartTime - MAX_AGE_MS - 1 ELSE StartTime - i
PriorSnapshot(i, n) == BuildSnapshot(<<PriorTimestamp(i, n), 0 - 1>>, PriorTimestamp(i, n), AtCeilings)
PriorList(n) == [i \in 1..n |-> PriorSnapshot(i, n)]
PriorLists == {PriorList(0), PriorList(2), PriorList(DEFAULT_MAX_SNAPSHOTS)}

NoSnapshot == BuildSnapshot(<<0, 0>>, 0, AtCeilings)
IdleCycle == [pc |-> "idle", manual |-> FALSE, at |-> 0, snap |-> NoSnapshot,
              pre |-> <<>>, L |-> <<>>, settings |-> NoSettings, filtered |-> <<>>,
              wrote |-> FALSE, why |-> "none", prior |-> [count |-> 0, until |-> 0]]

\* the crash-recovery fields of 'settings' as onInstalled stores them
DefaultRecoverySettings ==
  [enableCrashRecovery |-> TRUE, autoRestoreOnStartup |-> TRUE,
   showRecoveryNotifications |-> TRUE]
\* what the options page can store of them: one value for each branch of
\* detectAndRecoverFromCrash (restore, notify, neither, recovery disabled)
RecoverySettingsValues ==
  {DefaultRecoverySettings,
   [DefaultRecoverySettings EXCEPT !.autoRestoreOnStartup = FALSE],
   [DefaultRecoverySettings EXCEPT !.autoRestoreOnStartup = FALSE,
                                   !.showRecoveryNotifications = FALSE],
   [DefaultRecoverySettings EXCEPT !.enableCrashRecovery = FALSE]}

\* the onStartup listener when it is not running (caught: the catch of
\* restoreWorkspacesFromSnapshots has run), and a free operation slot
NoStartup(pc) ==
  [pc |-> pc, S |-> NoSnapshot, list |-> <<>>, caught |-> FALSE, settings |-> NoSettings]
IdleOp == [pc |-> "idle", kind |-> "none", arg |-> <<>>, read |-> <<>>, snaps |-> <<>>]

\* a lifetime: how it began ("install": onInstalled, "start": onStartup),
\* whether its onStartup has set the marker, what its crash detection did, and
\* how the lifetime before it ended and whether that one had set the marker
FirstLife(kind, marked) ==
  [kind |-> kind, marked |-> marked, outcome |-> "none", prev |-> "none",
   prevMarked |-> FALSE]
NextLife(l, end) ==
  [kind |-> "start", marked |-> FALSE, outcome |-> "none", prev |-> end,
   prevMarked |-> l.marked]

(***************************************************************************)
(* Pure functions of the program.                                          *)
(***************************************************************************)
\* saveWorkspaceSnapshotAtomic: Math.max(settings.settings?.maxAutoSaveSnapshots || 10, 1)
MaxSnapshotsOf(s) ==
  Max(IF s.maxAutoSaveSnapshots = 0 THEN DEFAULT_MAX_SNAPSHOTS ELSE s.maxAutoSaveSnapshots,
      MIN_MAX_SNAPSHOTS)

\* variants of steps 4-5 that the properties below must tell from the program's
NewSnapshotsUntrimmed(snapshot, list, max) == <<snapshot>> \o list
NewSnapshotsAppended(snapshot, list, max) ==
  LET all == list \o <<snapshot>>
  IN  IF Len(all) > max THEN SubSeq(all, 1, max) ELSE all
NewSnapshotsReplacing(snapshot, list, max) == <<snapshot>>

\* saveWorkspaceSnapshotAtomic steps 4-5: [snapshot, ...autoSaveSnapshots], splice(max)
NewSnapshots(snapshot, list, max) ==
  LET all == <<snapshot>> \o list
  IN  IF Len(all) > max THEN SubSeq(all, 1, max) ELSE all

\* a filter that drops nothing
FilterKeepingAll(list, id) == list

\* cleanupFailedSnapshot: autoSaveSnapshots.filter(s => s && s.id !== snapshotId)
FilterOutId(list, id) == SelectSeq(list, LAMBDA s : s.id # id)

\* a validation that lets everything through
ValidateAlwaysTrue(snapshot) == TRUE

\* validateWorkspaceSnapshot
validateWorkspaceSnapshot(snapshot) ==
  /\ RequiredFields \subseteq snapshot.fields
  /\ snapshot.workspacesIsArray
  /\ snapshot.tabsIsArray
  /\ snapshot.timestamp > 0
  /\ snapshot.nTabs <= MAX_TABS
  /\ snapshot.nWorkspaces <= MAX_WORKSPACES
  /\ snapshot.tabsHaveUrl

\* a snapshot with the workspaces it holds: workspaces.workspaces || []
SnapshotOf(id, ts, ws, nTabs) ==
  [workspaces |-> ws] @@
  BuildSnapshot(id, ts, [nTabs |-> nTabs, ws |-> [isArray |-> TRUE, n |-> Len(ws)]])

\* saveCurrentWorkspace: the workspace object; id is Date.now().toString()
NewWorkspace(t, nTabs) ==
  [id |-> <<t>>, name |-> <<"Workspace">>, isActive |-> FALSE, tabs |-> nTabs]

\* saveCurrentWorkspace: workspaces.map(w => ({...w, isActive: false})),
\* unshift(workspace), splice(maxWorkspaces)
AfterSave(list, w, max) ==
  LET all == <<w>> \o [i \in DOMAIN list |-> [list[i] EXCEPT !.isActive = FALSE]]
  IN  IF Len(all) > max THEN SubSeq(all, 1, max) ELSE all

\* switchToWorkspace: workspaces.map(w => ({...w, isActive: w.id === workspaceId}))
AfterSwitch(list, id) ==
  [i \in DOMAIN list |-> [list[i] EXCEPT !.isActive = (list[i].id = id)]]

\* deleteWorkspace: workspaces.filter(w => w.id !== workspaceId)
AfterDelete(list, id) == SelectSeq(list, LAMBDA w : w.id # id)

\* a copy that keeps the name and the active flag of the workspace it copies
RecoveredCopyAsIs(w, t) == [w EXCEPT !.id = <<"recovered", w.id, t>>]

\* recoverSelectedWorkspaces: {...workspace, id: `recovered_${workspace.id}_${Date.now()}`,
\* name: `${workspace.name} (Recovered)`, isActive: false}
RecoveredCopy(w, t) ==
  [w EXCEPT !.id = <<"recovered", w.id, t>>, !.name = Append(w.name, "(Recovered)"),
            !.isActive = FALSE]

\* autoSaveSnapshots.find(s => s.id === snapshotId): its workspaces, copied
CopiesOf(snapshotId, snaps, t) ==
  IF \E i \in DOMAIN snaps : snaps[i].id = snapshotId
  THEN LET k == CHOOSE i \in DOMAIN snaps :
                  /\ snaps[i].id = snapshotId
                  /\ \A j \in DOMAIN snaps : snaps[j].id = snapshotId => i <= j
           ws == snaps[k].workspaces
       IN  [i \in DOMAIN ws |-> RecoveredCopy(ws[i], t)]
  ELSE <<>>

\* recoverSelectedWorkspaces: the loop over snapshotIds, pushing onto workspaces
RECURSIVE Recovered(_, _, _, _)
Recovered(list, snapshotIds, snaps, t) ==
  IF snapshotIds = <<>> THEN list
  ELSE Recovered(list \o CopiesOf(Head(snapshotIds), snaps, t), Tail(snapshotIds), snaps, t)

\* restoreWorkspacesFromSnapshots: the recovery workspace built from the
\* snapshot's tabs
RecoverySession(S, t) ==
  [id |-> <<"recovery", t>>, name |-> <<"Recovered Session">>, isActive |-> FALSE,
   tabs |-> S.nTabs]

\* cleanupAutoSaveData: filter((snapshot, index) => index < maxSnapshots &&
\* snapshot.timestamp > cutoffTime), maxSnapshots = maxAutoSaveSnapshots || 10
Cleaned(list, stored, t) ==
  LET max == IF stored.maxAutoSaveSnapshots = 0 THEN DEFAULT_MAX_SNAPSHOTS
             ELSE stored.maxAutoSaveSnapshots
      keep == {i \in DOMAIN list : i - 1 < max /\ list[i].timestamp > t - MAX_AGE_MS}
      F[i \in 0..Len(list)] ==
        IF i = 0 THEN <<>> ELSE IF i \in keep THEN Append(F[i - 1], list[i]) ELSE F[i - 1]
  IN  F[Len(list)]

(***************************************************************************)
(* Initial state: the script has just been loaded for the first time.      *)
(***************************************************************************)
\* history: failed cycles in a row (a saved cycle or a settings change starts
\* the count again), the end of the cooldown that the third of them began,
\* the last manual request (n: the input it was) or cycle end (n: for a
\* saved cycle, the failure count it found), what became of the last call of
\* initializeAutoSave ("started", or "refused" by the mutex), and whether a
\* settings change that disables auto-save was handled and no initialization
\* has started since
NoEvent == [ev |-> "none", n |-> 0]
NoHist == [consecFailed |-> 0, cooldownEnd |-> 0, last |-> NoEvent,
           init |-> "none", off |-> FALSE, clear |-> "none", period |-> 0,
           done |-> "none", pending |-> FALSE]
NoRead == [ok |-> FALSE, enabled |-> FALSE, interval |-> 0]

(***************************************************************************)
(* Values of the inactivity monitor.                                       *)
(***************************************************************************)
\* strings are sequences of characters; hostnames and rules are written over
\* a three-letter alphabet: "a.b" is the base domain of the examples
Chars == {"a", "b", "."}
WildcardPrefix == <<"*", ".">>
BaseDomain == <<"a", ".", "b">>
\* a subdomain of the base domain; a host that shares only its trailing
\* characters; a host that has it as a prefix
SubHost == <<"b", ".">> \o BaseDomain
TailHost == <<"b">> \o BaseDomain
PrefixHost == BaseDomain \o <<".", "a">>

\* tab.url as chrome.tabs.query reports it: missing, one that new URL()
\* rejects, an internal page, or a web page with its hostname
NoUrl == [kind |-> "undefined", host |-> <<>>]
BadUrl == [kind |-> "invalid", host |-> <<>>]
ChromeUrl == [kind |-> "chrome", host |-> <<>>]
ExtensionUrl == [kind |-> "chrome-extension", host |-> <<>>]
WebUrl(h) == [kind |-> "web", host |-> h]

\* the transient properties of a tab a query can return
PlainTab == [pinned |-> FALSE, audible |-> FALSE, loading |-> FALSE, url |-> WebUrl(PrefixHost)]
TabProfiles ==
  {PlainTab,
   [PlainTab EXCEPT !.pinned = TRUE],
   [PlainTab EXCEPT !.audible = TRUE],
   [PlainTab EXCEPT !.loading = TRUE],
   [PlainTab EXCEPT !.url = ChromeUrl],
   [PlainTab EXCEPT !.url = ExtensionUrl],
   [PlainTab EXCEPT !.url = WebUrl(SubHost)],
   [PlainTab EXCEPT !.url = BadUrl],
   [PlainTab EXCEPT !.url = NoUrl]}

\* onInstalled: the inactive-tab defaults, with the feature switched on
DefaultTabSettings ==
  [autoCloseInactiveTabs |-> TRUE, inactiveTabTimeoutMinutes |-> DEFAULT_TIMEOUT_MINUTES,
   excludePinnedFromAutoClose |-> TRUE, excludeAudibleFromAutoClose |-> TRUE,
   notifyBeforeAutoClose |-> TRUE, protectedDomains |-> <<>>]
\* the settings of a monitor run: the defaults; a wildcard rule; notification
\* and exclusions off and the timeout field falsy; the feature off
TabSettingsValues ==
  {DefaultTabSettings,
   [DefaultTabSettings EXCEPT !.protectedDomains = <<WildcardPrefix \o BaseDomain>>],
   [DefaultTabSettings EXCEPT !.notifyBeforeAutoClose = FALSE,
                              !.excludePinnedFromAutoClose = FALSE,
                              !.excludeAudibleFromAutoClose = FALSE,
                              !.inactiveTabTimeoutMinutes = 0],
   [DefaultTabSettings EXCEPT !.autoCloseInactiveTabs = FALSE]}

\* updateTabActivity: suspendedAt: null
NullTime == -1
\* tabActivity[tabId] is undefined
NoRecord == [present |-> FALSE, lastAccessed |-> 0, createdAt |-> 0,
             suspended |-> FALSE, suspendedAt |-> NullTime]
\* a closed tab; an open tab in the background
ClosedTab == [open |-> FALSE, active |-> FALSE, discarded |-> FALSE]
OpenTab == [open |-> TRUE, active |-> FALSE, discarded |-> FALSE]

IdleHandler == [pc |-> "idle", kind |-> "none", tab |-> 0, t |-> 0, map |-> <<>>]
IdleSweep == [pc |-> "idle", settings |-> DefaultTabSettings, t |-> 0, rest |-> <<>>,
              map |-> <<>>, batch |-> <<>>, call |-> IdleHandler]
NoMatch == [pc |-> "none", rule |-> <<>>, host |-> <<>>, result |-> FALSE]
IdleSusp == [pc |-> "idle", batch |-> <<>>, i |-> 0, due |-> 0, map |-> <<>>,
             settings |-> DefaultTabSettings]

\* the monitor at rest: no tab open, nothing recorded
InitMonitorOff ==
  /\ tabs = [id \in TabIds |-> ClosedTab]
  /\ tabSettings = DefaultTabSettings
  /\ tabActivity = [id \in TabIds |-> NoRecord]
  /\ localQueue = <<>>
  /\ handlers = [h \in HandlerSlots |-> IdleHandler]
  /\ sweep = IdleSweep
  /\ susp = IdleSusp
  /\ match = NoMatch
  /\ discards = {}
  /\ inactiveTabsTimer = FALSE

\* the budgets of a run, and what its cycles can be handed
\* recovery: whether the run follows the crash detection of onStartup
SchedLimits == [advances |-> MaxAdvances, inputs |-> MaxInputs,
                gathered |-> {AtCeilings, TooManyTabs}, recovery |-> FALSE]
StoreLimits == [advances |-> StoreAdvances, inputs |-> StoreInputs, gathered |-> Gathered,
                recovery |-> FALSE]
LiveLimits  == [advances |-> LiveAdvances, inputs |-> LiveInputs,
                gathered |-> {AtCeilings, TooManyTabs}, recovery |-> FALSE]
RecLimits   == [advances |-> RecAdvances, inputs |-> RecInputs, gathered |-> {},
                recovery |-> TRUE]
TabLimits   == [advances |-> TabAdvances, inputs |-> TabInputs, gathered |-> {},
                recovery |-> FALSE]
PeriodLimits == [advances |-> 0, inputs |-> PeriodInputs, gathered |-> {}, recovery |-> FALSE]
ShutLimits  == [advances |-> ShutAdvances, inputs |-> ShutInputs, gathered |-> {AtCeilings},
                recovery |-> FALSE]

\* the two flags as the design declares them: not in progress, never attempted
InitFlags ==
  /\ isAutoSaveInProgress = FALSE
  /\ lastAutoSaveAttempt = 0

\* service-worker memory when the script has been evaluated
InitMemory ==
  /\ autoSaveTimer = FALSE
  /\ intervals = 0
  /\ autoSaveInitMutex = FALSE
  /\ InitFlags
  /\ autoSaveFailureCount = 0
  /\ autoSaveDisabledUntil = 0
  /\ tickPending = FALSE
  /\ reenableTimers = {}
  /\ initPc = "idle"
  /\ initRead = NoRead
  /\ cyc = [c \in Slots |-> IdleCycle]
  /\ manualResult = "none"
  /\ started = FALSE

\* the browser has started and onStartup has passed its crash detection and
\* set the marker; no workspace has been saved
InitStarted ==
  /\ workspaces = <<>>
  /\ extensionRunning = TRUE
  /\ recoverySettings = DefaultRecoverySettings
  /\ startup = NoStartup("init")
  /\ ops = [o \in OpSlots |-> IdleOp]
  /\ lives = FirstLife("start", TRUE)

\* the extension has just been installed: onInstalled stored the defaults,
\* onStartup is not dispatched in this lifetime
InitInstalled ==
  /\ workspaces = <<>>
  /\ extensionRunning = FALSE
  /\ recoverySettings = DefaultRecoverySettings
  /\ startup = NoStartup("none")
  /\ ops = [o \in OpSlots |-> IdleOp]
  /\ lives = FirstLife("install", FALSE)

InitEnv ==
  /\ now = StartTime
  /\ advances = 0
  /\ inputs = 0
  /\ kills = 0
  /\ tempKeys = {}
  /\ flagsDeclared \in BOOLEAN
  /\ hist = NoHist

\* scheduler runs: default settings (onInstalled), either enabled flag; no snapshots yet
Init ==
  /\ InitEnv
  /\ InitMonitorOff
  /\ InitMemory
  /\ InitStarted
  /\ limit = SchedLimits
  /\ settings \in {s \in SettingsValues : s.maxAutoSaveSnapshots = 0}
  /\ autoSaveSnapshots = PriorList(0)

\* store runs: auto-save enabled, any stored maximum, snapshots of earlier lifetimes
InitStore ==
  /\ InitEnv
  /\ InitMonitorOff
  /\ InitMemory
  /\ InitStarted
  /\ limit = StoreLimits
  /\ settings \in {s \in SettingsValues : s.autoSaveEnabled}
  /\ autoSaveSnapshots \in PriorLists

\* unattended runs: auto-save enabled and left enabled
InitLive ==
  /\ InitEnv
  /\ InitMonitorOff
  /\ InitMemory
  /\ InitStarted
  /\ limit = LiveLimits
  /\ settings = [NoSettings EXCEPT !.autoSaveEnabled = TRUE]
  /\ autoSaveSnapshots = PriorList(0)

\* an input from outside arrives
Input == inputs < limit.inputs /\ inputs' = inputs + 1

\* the awaited call resolves, or rejects
Resolve == UNCHANGED inputs
Reject == Input

(***************************************************************************)
(* Failure bookkeeping.                                                    *)
(***************************************************************************)
\* if (autoSaveTimer) { clearInterval(autoSaveTimer); autoSaveTimer = null }:
\* the intervals still alive afterwards
ClearedIntervals == IF autoSaveTimer THEN intervals - 1 ELSE intervals

\* a reset that forgets the disabled-until marker
ResetTrackingCountOnly ==
  IF autoSaveFailureCount > 0
  THEN autoSaveFailureCount' = 0 /\ UNCHANGED autoSaveDisabledUntil
  ELSE UNCHANGED failVars

\* resetAutoSaveFailureTracking
resetAutoSaveFailureTracking ==
  IF autoSaveFailureCount > 0
  THEN autoSaveFailureCount' = 0 /\ autoSaveDisabledUntil' = 0
  ELSE UNCHANGED failVars

\* handleAutoSaveFailure
handleAutoSaveFailure ==
  /\ autoSaveFailureCount' = autoSaveFailureCount + 1
  /\ IF autoSaveFailureCount + 1 >= MAX_CONSECUTIVE_FAILURES
     THEN /\ autoSaveDisabledUntil' = now + FAILURE_TIMEOUT_MS
          /\ autoSaveTimer' = FALSE
          /\ intervals' = ClearedIntervals
          /\ reenableTimers' = reenableTimers \cup {now + FAILURE_TIMEOUT_MS}
     ELSE UNCHANGED <<autoSaveDisabledUntil, autoSaveTimer, intervals, reenableTimers>>

(***************************************************************************)
(* initializeAutoSave.                                                     *)
(***************************************************************************)
\* a call that does not look at the mutex
InitCallReentrant == autoSaveInitMutex' = TRUE /\ initPc' = "get"

\* the call, up to `await chrome.storage.sync.get('settings')`
InitCall ==
  IF autoSaveInitMutex
  THEN UNCHANGED <<autoSaveInitMutex, initPc>>
  ELSE autoSaveInitMutex' = TRUE /\ initPc' = "get"

\* history of a call of initializeAutoSave: what became of it
Called(h) ==
  IF autoSaveInitMutex THEN [h EXCEPT !.init = "refused"]
  ELSE [h EXCEPT !.init = "started", !.off = FALSE]

\* the storage read is served
InitGet ==
  /\ initPc = "get"
  /\ initPc' = "resume"
  /\ \/ Resolve /\ initRead' = [ok |-> TRUE, enabled |-> settings.autoSaveEnabled,
                                 interval |-> settings.autoSaveInterval]
     \/ Reject /\ initRead' = NoRead
  /\ UNCHANGED <<now, advances, kills, limit, recVars, monVars, storeVars, flagsDeclared,
                 autoSaveTimer, intervals, autoSaveInitMutex, isAutoSaveInProgress,
                 lastAutoSaveAttempt, failVars, tickPending, reenableTimers, cyc,
                 manualResult, started, hist>>

\* an interval without the floor
IntervalWithoutFloor(v) == IF v = 0 THEN DEFAULT_INTERVAL_S ELSE v

\* interval = Math.max(settings.settings?.autoSaveInterval || 60, 10)
IntervalOf(v) == Max(IF v = 0 THEN DEFAULT_INTERVAL_S ELSE v, MIN_INTERVAL_S)

\* setInterval(callback, interval * 1000): the delay the timer runs with, in
\* milliseconds. The platform converts the argument to a signed 32-bit
\* integer and takes a negative result as 0; for the intervals of these runs
\* (below 2^32 ms) a product above MAX_DELAY_MS wraps to a negative number
TimerDelay(interval) ==
  IF interval <= MAX_DELAY_MS \div 1000 THEN interval * 1000 ELSE 0

\* the continuation: clear the old timer, arm a new one if enabled; catch; finally
InitArms == initRead.ok /\ initRead.enabled

\* history of a completed initializeAutoSave: the delay of the timer it armed
\* (0: none), and the path it left by
Completed(h) ==
  [h EXCEPT !.period = IF InitArms THEN TimerDelay(IntervalOf(initRead.interval)) ELSE 0,
            !.done = IF ~initRead.ok THEN "error" ELSE IF initRead.enabled THEN "armed"
                     ELSE "disabled"]

\* a continuation whose catch returns without passing through finally
InitResumeHoldingFlag ==
  /\ initPc = "resume"
  /\ autoSaveTimer' = InitArms
  /\ intervals' = ClearedIntervals + (IF InitArms THEN 1 ELSE 0)
  /\ autoSaveInitMutex' = ~initRead.ok
  /\ initPc' = "idle"
  /\ initRead' = NoRead
  /\ hist' = Completed(hist)
  /\ UNCHANGED <<envVars, recVars, monVars, storeVars, flagsDeclared, isAutoSaveInProgress,
                 lastAutoSaveAttempt, failVars, tickPending, reenableTimers, cyc,
                 manualResult, started>>

InitResume ==
  /\ initPc = "resume"
  /\ autoSaveTimer' = InitArms
  /\ intervals' = ClearedIntervals + (IF InitArms THEN 1 ELSE 0)
  /\ autoSaveInitMutex' = FALSE
  /\ initPc' = "idle"
  /\ initRead' = NoRead
  /\ hist' = Completed(hist)
  /\ UNCHANGED <<envVars, recVars, monVars, storeVars, flagsDeclared, isAutoSaveInProgress,
                 lastAutoSaveAttempt, failVars, tickPending, reenableTimers, cyc,
                 manualResult, started>>

(***************************************************************************)
(* createWorkspaceSnapshot: the gate (everything before the try block).    *)
(***************************************************************************)
\* gates that leave out the debounce window, or the in-progress check
GateNoWindow(disabledUntil) ==
  IF disabledUntil > now THEN "disabled"
  ELSE IF ~flagsDeclared THEN "throw"
  ELSE IF isAutoSaveInProgress THEN "skip"
  ELSE "run"
GateNoInProgress(disabledUntil) ==
  IF disabledUntil > now THEN "disabled"
  ELSE IF ~flagsDeclared THEN "throw"
  ELSE IF (now - lastAutoSaveAttempt) < AUTO_SAVE_DEBOUNCE_MS THEN "skip"
  ELSE "run"

\* "disabled": autoSaveDisabledUntil > now; "throw": the read of
\* isAutoSaveInProgress finds no binding; "skip": debounce; "run": flags are set
Gate(disabledUntil) ==
  IF disabledUntil > now THEN "disabled"
  ELSE IF ~flagsDeclared THEN "throw"
  ELSE IF isAutoSaveInProgress \/ (now - lastAutoSaveAttempt) < AUTO_SAVE_DEBOUNCE_MS
       THEN "skip"
  ELSE "run"

\* `snapshot_${now}_${Math.random()...}`: the timestamp and a suffix that no
\* snapshot of another lifetime carries
SnapshotId(at) == <<at, kills>>

FreeSlot == CHOOSE c \in Slots : cyc[c].pc = "idle" /\ \A d \in Slots : cyc[d].pc = "idle" => c <= d

\* what a manual trigger found before it touched the failure state:
\* originalFailureCount, and the disabled-until marker it is about to clear
PriorFailureState(manual) ==
  IF manual THEN [count |-> autoSaveFailureCount, until |-> autoSaveDisabledUntil]
  ELSE IdleCycle.prior

\* isAutoSaveInProgress = true; lastAutoSaveAttempt = now; await sync.get('settings')
StartCycle(manual) ==
  /\ \E c \in Slots : cyc[c].pc = "idle"
  /\ isAutoSaveInProgress' = TRUE
  /\ lastAutoSaveAttempt' = now
  /\ cyc' = [cyc EXCEPT ![FreeSlot] =
               [IdleCycle EXCEPT !.pc = "settings", !.manual = manual, !.at = now,
                                 !.prior = PriorFailureState(manual)]]

(***************************************************************************)
(* Triggers.                                                               *)
(***************************************************************************)
\* the setInterval callback: queues setTimeout(() => createWorkspaceSnapshot(), 0)
TimerFire ==
  /\ autoSaveTimer
  /\ ~tickPending
  /\ tickPending' = TRUE
  /\ UNCHANGED <<envVars, recVars, monVars, storeVars, flagsDeclared, autoSaveTimer, intervals, autoSaveInitMutex,
                 isAutoSaveInProgress, lastAutoSaveAttempt, failVars, reenableTimers,
                 initPc, initRead, cyc, manualResult, started, hist>>

\* the queued callback calls createWorkspaceSnapshot(); a rejection is logged
TickRun ==
  /\ tickPending
  /\ tickPending' = FALSE
  /\ IF Gate(autoSaveDisabledUntil) = "run"
     THEN StartCycle(FALSE)
     ELSE UNCHANGED <<isAutoSaveInProgress, lastAutoSaveAttempt, cyc>>
  /\ UNCHANGED <<envVars, recVars, monVars, storeVars, flagsDeclared, autoSaveTimer, intervals, autoSaveInitMutex,
                 failVars, reenableTimers, initPc, initRead, manualResult, started, hist>>

\* what the catch of triggerManualAutoSave puts back: originalFailureCount
ManualRestoredCount == autoSaveFailureCount

\* a 'triggerManualAutoSave' message: triggerManualAutoSave, up to the first
\* await inside createWorkspaceSnapshot
triggerManualAutoSave ==
  /\ Input
  /\ autoSaveDisabledUntil' = 0
  /\ LET g == Gate(0) IN
     \/ /\ g = "run"
        /\ StartCycle(TRUE)
        /\ autoSaveFailureCount' = 0
        /\ UNCHANGED manualResult
     \/ /\ g = "skip"
        /\ autoSaveFailureCount' = 0
        /\ manualResult' = "success"
        /\ UNCHANGED <<isAutoSaveInProgress, lastAutoSaveAttempt, cyc>>
     \/ /\ g = "throw"
        /\ autoSaveFailureCount' = ManualRestoredCount
        /\ manualResult' = "failure"
        /\ UNCHANGED <<isAutoSaveInProgress, lastAutoSaveAttempt, cyc>>
  /\ hist' = [hist EXCEPT !.last = [ev |-> "manual", n |-> inputs + 1]]
  /\ UNCHANGED <<now, advances, kills, limit, recVars, monVars, storeVars, flagsDeclared,
                 autoSaveTimer, intervals, autoSaveInitMutex, tickPending, reenableTimers, initPc,
                 initRead, started>>

\* the options page stores new settings (chrome.storage.sync.set)
OptionsSave(s) ==
  /\ s # settings
  /\ Input
  /\ settings' = s
  /\ UNCHANGED <<now, advances, kills, limit, recVars, monVars, autoSaveSnapshots, tempKeys,
                 memVars, hist>>

\* an 'updateAutoSaveSettings' message: handleAutoSaveSettingsChange(newSettings),
\* up to the await inside initializeAutoSave
handleAutoSaveSettingsChange(newSettings) ==
  /\ Input
  /\ autoSaveTimer' = FALSE
  /\ intervals' = ClearedIntervals
  /\ resetAutoSaveFailureTracking
  /\ IF newSettings.autoSaveEnabled THEN InitCall ELSE UNCHANGED <<autoSaveInitMutex, initPc>>
  /\ hist' = LET h == [hist EXCEPT !.consecFailed = 0, !.cooldownEnd = 0]
             IN  IF newSettings.autoSaveEnabled THEN Called(h) ELSE [h EXCEPT !.off = TRUE]
  /\ UNCHANGED <<now, advances, kills, limit, recVars, monVars, storeVars, flagsDeclared,
                 isAutoSaveInProgress, lastAutoSaveAttempt, tickPending, reenableTimers,
                 initRead, cyc, manualResult, started>>

\* a one-shot callback that does not call initializeAutoSave
ReenableFireWithoutInit(t) ==
  /\ t \in reenableTimers
  /\ now >= t
  /\ reenableTimers' = reenableTimers \ {t}
  /\ UNCHANGED <<envVars, recVars, monVars, storeVars, flagsDeclared, autoSaveTimer, intervals, autoSaveInitMutex,
                 isAutoSaveInProgress, lastAutoSaveAttempt, failVars, tickPending, initPc,
                 initRead, cyc, manualResult, started, hist>>

\* a one-shot callback that resets the failure tracking before it calls
\* initializeAutoSave
ReenableFireResetting(t) ==
  /\ t \in reenableTimers
  /\ now >= t
  /\ reenableTimers' = reenableTimers \ {t}
  /\ resetAutoSaveFailureTracking
  /\ InitCall
  /\ hist' = Called(hist)
  /\ UNCHANGED <<envVars, recVars, monVars, storeVars, flagsDeclared, autoSaveTimer, intervals, isAutoSaveInProgress,
                 lastAutoSaveAttempt, tickPending, initRead, cyc, manualResult,
                 started>>

\* the one-shot timer armed by handleAutoSaveFailure fires
ReenableFire(t) ==
  /\ t \in reenableTimers
  /\ now >= t
  /\ reenableTimers' = reenableTimers \ {t}
  /\ InitCall
  /\ hist' = Called(hist)
  /\ UNCHANGED <<envVars, recVars, monVars, storeVars, flagsDeclared, autoSaveTimer, intervals, isAutoSaveInProgress,
                 lastAutoSaveAttempt, failVars, tickPending, initRead, cyc, manualResult,
                 started>>

\* chrome.runtime.onStartup, from its read of the settings on:
\* initializeAutoSave() if auto-save is enabled
Startup ==
  /\ ~started
  /\ startup.pc = "init"
  /\ started' = TRUE
  /\ \/ /\ Resolve
        /\ IF settings.autoSaveEnabled THEN InitCall /\ hist' = Called(hist)
           ELSE UNCHANGED <<autoSaveInitMutex, initPc, hist>>
     \/ /\ Reject
        /\ UNCHANGED <<autoSaveInitMutex, initPc, hist>>
  /\ UNCHANGED <<now, advances, kills, limit, recVars, monVars, storeVars, flagsDeclared, autoSaveTimer, intervals,
                 isAutoSaveInProgress, lastAutoSaveAttempt, failVars, tickPending,
                 reenableTimers, initRead, cyc, manualResult>>

\* the process ends: its memory is lost; the next lifetime begins with the
\* dispatch of onStartup
ProcessEnds(end) ==
  /\ kills' = kills + 1
  /\ autoSaveTimer' = FALSE
  /\ intervals' = 0
  /\ autoSaveInitMutex' = FALSE
  /\ isAutoSaveInProgress' = FALSE
  /\ lastAutoSaveAttempt' = 0
  /\ autoSaveFailureCount' = 0
  /\ autoSaveDisabledUntil' = 0
  /\ tickPending' = FALSE
  /\ reenableTimers' = {}
  /\ initPc' = "idle"
  /\ initRead' = NoRead
  /\ cyc' = [c \in Slots |-> IdleCycle]
  /\ manualResult' = "none"
  /\ started' = FALSE
  /\ hist' = NoHist
  /\ startup' = NoStartup(IF limit.recovery THEN "detect" ELSE "init")
  /\ ops' = [o \in OpSlots |-> IdleOp]
  /\ lives' = IF limit.recovery THEN NextLife(lives, end) ELSE lives
  /\ UNCHANGED <<now, advances, limit, monVars, flagsDeclared, settings, tempKeys, workspaces,
                 recoverySettings>>

\* the service worker is killed: its memory is lost, the store is kept; a
\* kill after onSuspend has removed the marker ends a clean shutdown early
Kill ==
  /\ Input
  /\ ProcessEnds(IF startup.pc = "cleanup" THEN "clean" ELSE "killed")
  /\ UNCHANGED <<autoSaveSnapshots, extensionRunning>>

\* the clock moves by a span the program is waiting for: the debounce window
\* while it is open, the cooldown while the disabled-until marker or a
\* re-enable timer is still ahead
DeadlineAhead(d) ==
  \/ d = AUTO_SAVE_DEBOUNCE_MS /\ now - lastAutoSaveAttempt < AUTO_SAVE_DEBOUNCE_MS
  \/ d = FAILURE_TIMEOUT_MS /\ autoSaveDisabledUntil > now
  \/ d = FAILURE_TIMEOUT_MS /\ \E t \in reenableTimers : t > now

\* time passes; a queued zero-delay callback runs before the clock moves
Advance(d) ==
  /\ advances < limit.advances
  /\ ~tickPending
  /\ DeadlineAhead(d)
  /\ now' = now + d
  /\ advances' = advances + 1
  /\ UNCHANGED <<inputs, kills, limit, recVars, monVars, storeVars, memVars, hist>>

(***************************************************************************)
(* createWorkspaceSnapshot: the try block, one action per await.           *)
(***************************************************************************)
cycFrame == <<now, advances, kills, limit, recVars, monVars, settings, flagsDeclared,
              autoSaveInitMutex, lastAutoSaveAttempt, tickPending, initPc, initRead,
              started>>

\* the activation moves on to its next await
Go(c, rec) ==
  /\ cyc' = [cyc EXCEPT ![c] = rec]
  /\ UNCHANGED <<isAutoSaveInProgress, failVars, autoSaveTimer, intervals, reenableTimers,
                 manualResult, hist>>

\* a return that leaves the flag as it is
FinallyKeepingFlag(c) ==
  /\ UNCHANGED isAutoSaveInProgress
  /\ cyc' = [cyc EXCEPT ![c] = IdleCycle]
  /\ manualResult' = IF cyc[c].manual THEN "success" ELSE manualResult

\* finally { isAutoSaveInProgress = false }, and the reply of a manual trigger
Finally(c) ==
  /\ isAutoSaveInProgress' = FALSE
  /\ cyc' = [cyc EXCEPT ![c] = IdleCycle]
  /\ manualResult' = IF cyc[c].manual THEN "success" ELSE manualResult

\* catch: handleAutoSaveFailure(error); finally
EndFailed(c) ==
  /\ handleAutoSaveFailure
  /\ Finally(c)
  /\ hist' = [hist EXCEPT
                !.consecFailed = hist.consecFailed + 1,
                !.cooldownEnd = IF hist.consecFailed + 1 >= MAX_CONSECUTIVE_FAILURES
                                THEN now + FAILURE_TIMEOUT_MS ELSE hist.cooldownEnd,
                !.last = [ev |-> IF cyc[c].why = "validation" THEN "invalid" ELSE "failed",
                          n |-> 0]]

\* saveWorkspaceSnapshotAtomic step 9 and the return through finally
EndSaved(c) ==
  /\ resetAutoSaveFailureTracking
  /\ Finally(c)
  /\ hist' = [hist EXCEPT !.consecFailed = 0, !.cooldownEnd = 0,
                          !.last = [ev |-> "saved", n |-> autoSaveFailureCount]]
  /\ UNCHANGED <<autoSaveTimer, intervals, reenableTimers>>

\* a return of the disabled case that goes through the failure handler
EndAbortedAsFailure(c) ==
  /\ handleAutoSaveFailure
  /\ Finally(c)
  /\ hist' = [hist EXCEPT !.last = [ev |-> "aborted", n |-> 0]]

\* 'Auto-save disabled during snapshot creation, aborting'
EndAborted(c) ==
  /\ Finally(c)
  /\ hist' = [hist EXCEPT !.last = [ev |-> "aborted", n |-> 0]]
  /\ UNCHANGED <<failVars, autoSaveTimer, intervals, reenableTimers>>

\* Step 1: settings = await chrome.storage.sync.get('settings')
CycleSettings(c) ==
  /\ cyc[c].pc = "settings"
  /\ \/ /\ Resolve
        /\ IF settings.autoSaveEnabled
           THEN Go(c, [cyc[c] EXCEPT !.pc = "gather"])
           ELSE EndAborted(c)
     \/ /\ Reject
        /\ EndFailed(c)
  /\ UNCHANGED <<cycFrame, autoSaveSnapshots, tempKeys>>

\* Steps 2-5: gather tabs and workspaces, build the snapshot, validate it;
\* step 6 calls saveWorkspaceSnapshotAtomic, which awaits its two reads
CycleGather(c) ==
  /\ cyc[c].pc = "gather"
  /\ \/ /\ Resolve
        /\ \E g \in limit.gathered :
             LET snapshot == BuildSnapshot(SnapshotId(cyc[c].at), cyc[c].at, g) IN
             IF validateWorkspaceSnapshot(snapshot)
             THEN Go(c, [cyc[c] EXCEPT !.pc = "saveRead", !.snap = snapshot,
                                       !.pre = autoSaveSnapshots])
             ELSE Go(c, [cyc[c] EXCEPT !.pc = "cleanRemove", !.snap = snapshot,
                                       !.why = "validation"])
     \/ /\ Reject
        /\ EndFailed(c)
  /\ UNCHANGED <<cycFrame, autoSaveSnapshots, tempKeys>>

(***************************************************************************)
(* saveWorkspaceSnapshotAtomic.                                            *)
(***************************************************************************)
\* an error inside its try block: the catch awaits remove(tempKey)
ToSaveCatch(c) == Go(c, [cyc[c] EXCEPT !.pc = "saveCatch", !.why = "atomic"])

\* Step 1: Promise.all([local.get('autoSaveSnapshots'), sync.get('settings')]);
\* then step 2 issues local.set({[tempKey]: snapshot})
SaveRead(c) ==
  /\ cyc[c].pc = "saveRead"
  /\ \/ /\ Resolve
        /\ Go(c, [cyc[c] EXCEPT !.pc = "tempSet", !.L = autoSaveSnapshots,
                                !.settings = settings])
     \/ /\ Reject
        /\ ToSaveCatch(c)
  /\ UNCHANGED <<cycFrame, autoSaveSnapshots, tempKeys>>

\* Step 2: the temporary key is written
SaveTempSet(c) ==
  /\ cyc[c].pc = "tempSet"
  /\ \/ /\ Resolve
        /\ tempKeys' = tempKeys \cup {cyc[c].snap.id}
        /\ Go(c, [cyc[c] EXCEPT !.pc = "tempGet"])
     \/ /\ Reject
        /\ UNCHANGED tempKeys
        /\ ToSaveCatch(c)
  /\ UNCHANGED <<cycFrame, autoSaveSnapshots>>

\* Step 3: read back the temporary key and compare ids
SaveTempGet(c) ==
  /\ cyc[c].pc = "tempGet"
  /\ \/ /\ Resolve
        /\ IF cyc[c].snap.id \in tempKeys
           THEN Go(c, [cyc[c] EXCEPT !.pc = "mainSet"])
           ELSE ToSaveCatch(c)
     \/ /\ Reject
        /\ ToSaveCatch(c)
  /\ UNCHANGED <<cycFrame, autoSaveSnapshots, tempKeys>>

\* Steps 4-6: local.set({autoSaveSnapshots: newSnapshots})
SaveMainSet(c) ==
  /\ cyc[c].pc = "mainSet"
  /\ \/ /\ Resolve
        /\ autoSaveSnapshots' =
             NewSnapshots(cyc[c].snap, cyc[c].L, MaxSnapshotsOf(cyc[c].settings))
        /\ Go(c, [cyc[c] EXCEPT !.pc = "mainGet", !.wrote = TRUE])
     \/ /\ Reject
        /\ UNCHANGED autoSaveSnapshots
        /\ ToSaveCatch(c)
  /\ UNCHANGED <<cycFrame, tempKeys>>

\* Step 7: read back the list and compare the first element's id
SaveMainGet(c) ==
  /\ cyc[c].pc = "mainGet"
  /\ \/ /\ Resolve
        /\ IF Len(autoSaveSnapshots) > 0 /\ autoSaveSnapshots[1].id = cyc[c].snap.id
           THEN Go(c, [cyc[c] EXCEPT !.pc = "tempRemove"])
           ELSE ToSaveCatch(c)
     \/ /\ Reject
        /\ ToSaveCatch(c)
  /\ UNCHANGED <<cycFrame, autoSaveSnapshots, tempKeys>>

\* Step 8: local.remove(tempKey); step 9: resetAutoSaveFailureTracking(); return
SaveTempRemove(c) ==
  /\ cyc[c].pc = "tempRemove"
  /\ \/ /\ Resolve
        /\ tempKeys' = tempKeys \ {cyc[c].snap.id}
        /\ EndSaved(c)
     \/ /\ Reject
        /\ UNCHANGED tempKeys
        /\ ToSaveCatch(c)
  /\ UNCHANGED <<cycFrame, autoSaveSnapshots>>

\* catch: best-effort local.remove(tempKey), then
\* throw new Error('Atomic snapshot save failed: ...'); the caller's catch
\* calls cleanupFailedSnapshot(tempSnapshot.id), which awaits remove(tempKey)
SaveCatch(c) ==
  /\ cyc[c].pc = "saveCatch"
  /\ \/ /\ Resolve
        /\ tempKeys' = tempKeys \ {cyc[c].snap.id}
     \/ /\ Reject
        /\ UNCHANGED tempKeys
  /\ Go(c, [cyc[c] EXCEPT !.pc = "cleanRemove"])
  /\ UNCHANGED <<cycFrame, autoSaveSnapshots>>

(***************************************************************************)
(* cleanupFailedSnapshot, then handleAutoSaveFailure and finally.          *)
(***************************************************************************)
\* await local.remove(tempKey); an error ends cleanupFailedSnapshot
CleanRemove(c) ==
  /\ cyc[c].pc = "cleanRemove"
  /\ \/ /\ Resolve
        /\ tempKeys' = tempKeys \ {cyc[c].snap.id}
        /\ Go(c, [cyc[c] EXCEPT !.pc = "cleanGet"])
     \/ /\ Reject
        /\ UNCHANGED tempKeys
        /\ EndFailed(c)
  /\ UNCHANGED <<cycFrame, autoSaveSnapshots>>

\* await local.get('autoSaveSnapshots'); filter; set only if the length changed
CleanGet(c) ==
  /\ cyc[c].pc = "cleanGet"
  /\ \/ /\ Resolve
        /\ LET f == FilterOutId(autoSaveSnapshots, cyc[c].snap.id) IN
           IF Len(f) # Len(autoSaveSnapshots)
           THEN Go(c, [cyc[c] EXCEPT !.pc = "cleanSet", !.filtered = f])
           ELSE EndFailed(c)
     \/ /\ Reject
        /\ EndFailed(c)
  /\ UNCHANGED <<cycFrame, autoSaveSnapshots, tempKeys>>

\* await local.set({autoSaveSnapshots: filteredSnapshots})
CleanSet(c) ==
  /\ cyc[c].pc = "cleanSet"
  /\ \/ /\ Resolve
        /\ autoSaveSnapshots' = cyc[c].filtered
     \/ /\ Reject
        /\ UNCHANGED autoSaveSnapshots
  /\ EndFailed(c)
  /\ UNCHANGED <<cycFrame, tempKeys>>

CycleStep(c) ==
  \/ CycleSettings(c)
  \/ CycleGather(c)
  \/ SaveRead(c)
  \/ SaveTempSet(c)
  \/ SaveTempGet(c)
  \/ SaveMainSet(c)
  \/ SaveMainGet(c)
  \/ SaveTempRemove(c)
  \/ SaveCatch(c)
  \/ CleanRemove(c)
  \/ CleanGet(c)
  \/ CleanSet(c)

(***************************************************************************)
(* Workspace operations: the read of the stored list, then the write.      *)
(***************************************************************************)
\* what a workspace operation and the startup listener leave alone
opFrame == <<advances, kills, limit, monVars, storeVars, memVars, hist, extensionRunning,
             recoverySettings, lives>>

\* await chrome.storage.local.set({ workspaces }) is served; a storage round
\* trip takes the clock past the current millisecond
WriteWorkspaces(list) == workspaces' = list /\ now' = now + 1

FreeOp == CHOOSE o \in OpSlots : ops[o].pc = "idle" /\ \A q \in OpSlots : ops[q].pc = "idle" => o <= q

\* a message arrives and its handler reads the stored list (recovery reads
\* the snapshots too)
OpRead(kind, arg) ==
  /\ Input
  /\ \E o \in OpSlots : ops[o].pc = "idle"
  /\ ops' = [ops EXCEPT ![FreeOp] =
               [pc |-> "write", kind |-> kind, arg |-> arg, read |-> workspaces,
                snaps |-> IF kind = "recover" THEN autoSaveSnapshots ELSE <<>>]]
  /\ UNCHANGED <<now, workspaces, startup, opFrame>>

\* the ids an operation can name: those of the stored workspaces
WorkspaceIds == {workspaces[i].id : i \in DOMAIN workspaces}

\* the snapshot ids a recovery request can list: stored ones, and one that
\* matches no snapshot
SnapshotIds == {autoSaveSnapshots[i].id : i \in DOMAIN autoSaveSnapshots} \cup {NoSnapshot.id}
SnapshotIdLists == {<<a>> : a \in SnapshotIds} \cup {<<a, b>> : a \in SnapshotIds, b \in SnapshotIds}

\* saveCurrentWorkspace with nTabs valid tabs open, up to its await of the set
saveCurrentWorkspaceRead(nTabs) == OpRead("save", <<nTabs>>)

\* switchToWorkspace(workspaceId), up to its await of the set; an id not in
\* the list throws 'Workspace not found'
switchToWorkspaceRead(workspaceId) ==
  /\ workspaceId \in WorkspaceIds
  /\ OpRead("switch", workspaceId)

\* deleteWorkspace(workspaceId), up to its await of the set
deleteWorkspaceRead(workspaceId) ==
  /\ workspaceId \in WorkspaceIds
  /\ OpRead("delete", workspaceId)

\* recoverSelectedWorkspaces(snapshotIds), up to the continuation of its reads
recoverSelectedWorkspacesRead(snapshotIds) == OpRead("recover", snapshotIds)

\* saveCurrentWorkspace: settings.settings?.maxWorkspaces || 20
MaxWorkspacesOf(stored) == IF stored # 0 THEN stored ELSE DEFAULT_MAX_WORKSPACES

\* the list the operation stores: computed from what it read, at the clock of
\* its continuation
OpResult(op) ==
  CASE op.kind = "save" -> AfterSave(op.read, NewWorkspace(now, op.arg[1]),
                                     MaxWorkspacesOf(StoredMaxWorkspaces))
    [] op.kind = "switch" -> AfterSwitch(op.read, op.arg)
    [] op.kind = "delete" -> AfterDelete(op.read, op.arg)
    [] op.kind = "recover" -> Recovered(op.read, op.arg, op.snaps, now)

\* the continuation of the operation in slot o and its set
OpWrite(o) ==
  /\ ops[o].pc = "write"
  /\ ops' = [ops EXCEPT ![o] = IdleOp]
  /\ \/ Resolve /\ WriteWorkspaces(OpResult(ops[o]))
     \/ Reject /\ UNCHANGED <<now, workspaces>>
  /\ UNCHANGED <<advances, kills, limit, monVars, storeVars, memVars, hist, extensionRunning,
                 recoverySettings, lives, startup>>

\* a cycle of createWorkspaceSnapshot that passes the gate and saves: the
\* snapshot of the stored workspaces and of nTabs valid tabs heads the list
SnapshotTaken(nTabs) ==
  /\ Input
  /\ Gate(autoSaveDisabledUntil) = "run"
  /\ settings.autoSaveEnabled
  /\ lastAutoSaveAttempt' = now
  /\ autoSaveSnapshots' =
       NewSnapshots(SnapshotOf(SnapshotId(now), now, workspaces, nTabs), autoSaveSnapshots,
                    MaxSnapshotsOf(settings))
  /\ UNCHANGED <<now, advances, kills, limit, settings, tempKeys, flagsDeclared,
                 autoSaveTimer, intervals, autoSaveInitMutex, isAutoSaveInProgress,
                 failVars, tickPending, reenableTimers, initPc, initRead, cyc,
                 manualResult, started, hist, recVars, monVars>>

\* the options page stores other crash-recovery settings
OptionsSaveRecovery(r) ==
  /\ r # recoverySettings
  /\ Input
  /\ recoverySettings' = r
  /\ UNCHANGED <<now, advances, kills, limit, monVars, storeVars, memVars, hist, workspaces,
                 extensionRunning, startup, ops, lives>>

(***************************************************************************)
(* onStartup: detectAndRecoverFromCrash, restoreWorkspacesFromSnapshots,   *)
(* the marker; onSuspend.                                                  *)
(***************************************************************************)
\* the listener moves on
StartupGo(pc, outcome) ==
  /\ startup' = [startup EXCEPT !.pc = pc]
  /\ lives' = [lives EXCEPT !.outcome = outcome]

\* a detection that does not look at the marker
DetectionBranchWithoutMarker(marker, r) ==
  IF r.enableCrashRecovery
  THEN IF r.autoRestoreOnStartup THEN "restore"
       ELSE IF r.showRecoveryNotifications THEN "notify" ELSE "silent"
  ELSE "nocrash"

\* detectAndRecoverFromCrash: the branch taken for the marker and settings read
DetectionBranch(marker, r) ==
  IF marker /\ r.enableCrashRecovery
  THEN IF r.autoRestoreOnStartup THEN "restore"
       ELSE IF r.showRecoveryNotifications THEN "notify" ELSE "silent"
  ELSE "nocrash"

\* detectAndRecoverFromCrash: the reads of 'extensionRunning' and 'settings',
\* and the branch taken; the catch logs a rejected read
DetectRead ==
  /\ startup.pc = "detect"
  /\ \/ /\ Resolve
        /\ LET branch == DetectionBranch(extensionRunning, recoverySettings) IN
           StartupGo(IF branch = "restore" THEN "snapshots" ELSE "mark", branch)
     \/ /\ Reject
        /\ StartupGo("mark", "error")
  /\ UNCHANGED <<now, advances, kills, limit, monVars, storeVars, memVars, hist, workspaces,
                 extensionRunning, recoverySettings, ops>>

\* restoreWorkspacesFromSnapshots: the read of the snapshots
RestoreRead ==
  /\ startup.pc = "snapshots"
  /\ \/ /\ Resolve
        /\ IF Len(autoSaveSnapshots) = 0
           THEN startup' = [startup EXCEPT !.pc = "mark"]
           ELSE LET latestSnapshot == autoSaveSnapshots[1] IN
                IF Len(latestSnapshot.workspaces) > 0
                THEN startup' = [startup EXCEPT !.pc = "setWorkspaces", !.S = latestSnapshot]
                ELSE startup' = [startup EXCEPT !.pc = "mark", !.S = latestSnapshot]
     \/ /\ Reject
        /\ startup' = [startup EXCEPT !.pc = "mark", !.caught = TRUE]
  /\ UNCHANGED <<now, workspaces, ops, opFrame>>

\* set({ workspaces: latestSnapshot.workspaces })
RestoreSet ==
  /\ startup.pc = "setWorkspaces"
  /\ \/ /\ Resolve
        /\ WriteWorkspaces(startup.S.workspaces)
        /\ startup' = [startup EXCEPT !.pc = "reread"]
     \/ /\ Reject
        /\ startup' = [startup EXCEPT !.pc = "mark", !.caught = TRUE]
        /\ UNCHANGED <<now, workspaces>>
  /\ UNCHANGED <<ops, opFrame>>

\* the second read of the settings; if (autoRestoreOnStartup && latestSnapshot.tabs):
\* an array is truthy, also an empty one; the recovery workspace is built and
\* the stored workspaces are read again
RestoreReread ==
  /\ startup.pc = "reread"
  /\ \/ /\ Resolve
        /\ IF recoverySettings.autoRestoreOnStartup /\ startup.S.tabsIsArray
           THEN startup' = [startup EXCEPT
                              !.pc = "merge",
                              !.list = <<RecoverySession(startup.S, now)>> \o workspaces]
           ELSE startup' = [startup EXCEPT !.pc = "mark"]
     \/ /\ Reject
        /\ startup' = [startup EXCEPT !.pc = "mark", !.caught = TRUE]
  /\ UNCHANGED <<now, workspaces, ops, opFrame>>

\* workspaces.unshift(recoveryWorkspace); set({ workspaces })
RestoreMerge ==
  /\ startup.pc = "merge"
  /\ \/ /\ Resolve
        /\ WriteWorkspaces(startup.list)
        /\ startup' = [startup EXCEPT !.pc = "mark"]
     \/ /\ Reject
        /\ startup' = [startup EXCEPT !.pc = "mark", !.caught = TRUE]
        /\ UNCHANGED <<now, workspaces>>
  /\ UNCHANGED <<ops, opFrame>>

\* onStartup: set({ extensionRunning: true }); a rejection ends the listener
StartupMark ==
  /\ startup.pc = "mark"
  /\ \/ /\ Resolve
        /\ extensionRunning' = TRUE
        /\ lives' = [lives EXCEPT !.marked = TRUE]
        /\ startup' = NoStartup("init")
        /\ UNCHANGED started
     \/ /\ Reject
        /\ startup' = NoStartup("none")
        /\ started' = TRUE
        /\ UNCHANGED <<extensionRunning, lives>>
  /\ UNCHANGED <<now, advances, kills, limit, monVars, storeVars, flagsDeclared, autoSaveTimer,
                 intervals, autoSaveInitMutex, isAutoSaveInProgress, lastAutoSaveAttempt,
                 failVars, tickPending, reenableTimers, initPc, initRead, cyc,
                 manualResult, hist, workspaces, recoverySettings, ops>>

\* the event page is idle: onStartup has returned, no workspace handler and
\* no cycle is suspended at an await
Idle ==
  /\ startup.pc \in {"none", "init"}
  /\ startup.pc = "init" => started
  /\ \A o \in OpSlots : ops[o].pc = "idle"
  /\ \A c \in Slots : cyc[c].pc = "idle"

\* the browser shuts down and dispatches onSuspend;
\* remove('extensionRunning') is served; the timer is cleared and
\* the failure tracking reset; cleanupAutoSaveData is called
onSuspend ==
  /\ Idle
  /\ Input
  /\ extensionRunning' = FALSE
  /\ autoSaveTimer' = FALSE
  /\ intervals' = ClearedIntervals
  /\ resetAutoSaveFailureTracking
  /\ startup' = NoStartup("cleanup")
  /\ UNCHANGED <<now, advances, kills, limit, monVars, storeVars, flagsDeclared,
                 autoSaveInitMutex, isAutoSaveInProgress, lastAutoSaveAttempt,
                 tickPending, reenableTimers, initPc, initRead, cyc, manualResult,
                 started, hist, workspaces, recoverySettings, ops, lives>>

\* onSuspend: remove('extensionRunning') rejects, the listener ends there, and
\* the process ends with the marker still set
SuspendFails ==
  /\ Idle
  /\ Input
  /\ ProcessEnds("unmarked")
  /\ UNCHANGED <<autoSaveSnapshots, extensionRunning>>

\* cleanupAutoSaveData of onSuspend, and the end of the process
SuspendCleanup ==
  /\ startup.pc = "cleanup"
  /\ \/ Resolve /\ autoSaveSnapshots' = Cleaned(autoSaveSnapshots, settings, now)
     \/ Reject /\ UNCHANGED autoSaveSnapshots
  /\ ProcessEnds("clean")
  /\ UNCHANGED extensionRunning

(***************************************************************************)
(* The specifications.                                                     *)
(***************************************************************************)
\* the settings the options page can store in a scheduler run: the enabled
\* flag changes, the maximum stays
SameMaximum == {x \in SettingsValues : x.maxAutoSaveSnapshots = settings.maxAutoSaveSnapshots}

Next ==
  \/ Startup
  \/ InitGet
  \/ InitResume
  \/ TimerFire
  \/ TickRun
  \/ triggerManualAutoSave
  \/ \E s \in SameMaximum : OptionsSave(s)
  \/ \E s \in SameMaximum : handleAutoSaveSettingsChange(s)
  \/ \E t \in reenableTimers : ReenableFire(t)
  \/ \E c \in Slots : CycleStep(c)
  \/ \E d \in {AUTO_SAVE_DEBOUNCE_MS, FAILURE_TIMEOUT_MS} : Advance(d)

Spec == Init /\ [][Next]_vars

\* the store runs: cycles started by ticks and manual triggers, kills, and the
\* options page changing the stored maximum
NextStore ==
  \/ Startup
  \/ InitGet
  \/ InitResume
  \/ TimerFire
  \/ TickRun
  \/ triggerManualAutoSave
  \/ \E s \in {x \in SettingsValues : x.autoSaveEnabled} : OptionsSave(s)
  \/ \E c \in Slots : CycleStep(c)
  \/ Kill
  \/ Advance(AUTO_SAVE_DEBOUNCE_MS)

StoreSpec == InitStore /\ [][NextStore]_vars

\* the recovery runs: from the installation on, workspaces are saved,
\* switched to, deleted and recovered, snapshots are taken, and lifetimes end
\* by a clean shutdown or a kill; the initialization that onStartup calls
\* without awaiting it is followed in the scheduler runs
InitRec ==
  /\ InitEnv
  /\ InitMonitorOff
  /\ InitMemory
  /\ InitInstalled
  /\ limit = RecLimits
  /\ settings = [NoSettings EXCEPT !.autoSaveEnabled = TRUE]
  /\ autoSaveSnapshots = PriorList(0)

\* a 'clearAutoSaveData' message: the listener evaluates clearAutoSaveData(),
\* a name the background script binds nowhere; the ReferenceError leaves the
\* listener before sendResponse is called and before it returns true (the
\* statements that store an empty list follow the break of 'getAutoSaveStatus'
\* and are never reached)
onMessageClearAutoSaveData ==
  /\ Input
  /\ hist' = [hist EXCEPT !.clear = "threw"]
  /\ UNCHANGED <<now, advances, kills, limit, storeVars, memVars, recVars, monVars>>

NextRec ==
  \/ onMessageClearAutoSaveData
  \/ \E n \in TabCounts : saveCurrentWorkspaceRead(n)
  \/ \E id \in WorkspaceIds : switchToWorkspaceRead(id)
  \/ \E id \in WorkspaceIds : deleteWorkspaceRead(id)
  \/ \E ids \in SnapshotIdLists : recoverSelectedWorkspacesRead(ids)
  \/ \E o \in OpSlots : OpWrite(o)
  \/ \E n \in SnapshotTabCounts : SnapshotTaken(n)
  \/ \E r \in RecoverySettingsValues : OptionsSaveRecovery(r)
  \/ DetectRead
  \/ RestoreRead
  \/ RestoreSet
  \/ RestoreReread
  \/ RestoreMerge
  \/ StartupMark
  \/ Startup
  \/ onSuspend
  \/ SuspendFails
  \/ SuspendCleanup
  \/ Kill
  \/ Advance(AUTO_SAVE_DEBOUNCE_MS)

RecSpec == InitRec /\ [][NextRec]_vars

(***************************************************************************)
(* onSuspend while a cycle is suspended at an await: cleanupAutoSaveData,  *)
(* one action per await.                                                   *)
(***************************************************************************)
\* what a step of the onSuspend listener leaves alone
suspendFrame == <<now, advances, kills, limit, monVars, settings, tempKeys, memVars, hist,
                  workspaces, extensionRunning, recoverySettings, ops, lives>>

\* the browser dispatches onSuspend whatever the cycles are doing;
\* remove('extensionRunning') is served, the timer is cleared, the failure
\* tracking reset, and cleanupAutoSaveData awaits sync.get('settings')
SuspendDispatch ==
  /\ startup.pc = "init"
  /\ started
  /\ Input
  /\ extensionRunning' = FALSE
  /\ autoSaveTimer' = FALSE
  /\ intervals' = ClearedIntervals
  /\ resetAutoSaveFailureTracking
  /\ startup' = NoStartup("cleanupSettings")
  /\ UNCHANGED <<now, advances, kills, limit, monVars, storeVars, flagsDeclared,
                 autoSaveInitMutex, isAutoSaveInProgress, lastAutoSaveAttempt,
                 tickPending, reenableTimers, initPc, initRead, cyc, manualResult,
                 started, hist, workspaces, recoverySettings, ops, lives>>

\* the listener has returned (the catch of cleanupAutoSaveData logs the
\* error); the event page is unloaded some time later
SuspendReturns == startup' = NoStartup("unload")

\* cleanupAutoSaveData: settings = await chrome.storage.sync.get('settings')
CleanupSettings ==
  /\ startup.pc = "cleanupSettings"
  /\ \/ /\ Resolve
        /\ startup' = [startup EXCEPT !.pc = "cleanupGet", !.settings = settings]
     \/ /\ Reject
        /\ SuspendReturns
  /\ UNCHANGED <<suspendFrame, autoSaveSnapshots>>

\* await chrome.storage.local.get('autoSaveSnapshots'); cutoffTime; filter;
\* set only if the length changed
CleanupGet ==
  /\ startup.pc = "cleanupGet"
  /\ \/ /\ Resolve
        /\ LET f == Cleaned(autoSaveSnapshots, startup.settings, now) IN
           IF Len(f) # Len(autoSaveSnapshots)
           THEN startup' = [startup EXCEPT !.pc = "cleanupSet", !.list = f]
           ELSE SuspendReturns
     \/ /\ Reject
        /\ SuspendReturns
  /\ UNCHANGED <<suspendFrame, autoSaveSnapshots>>

\* await chrome.storage.local.set({ autoSaveSnapshots: filteredSnapshots })
CleanupSet ==
  /\ startup.pc = "cleanupSet"
  /\ \/ /\ Resolve
        /\ autoSaveSnapshots' = startup.list
     \/ /\ Reject
        /\ UNCHANGED autoSaveSnapshots
  /\ SuspendReturns
  /\ UNCHANGED suspendFrame

\* the event page is unloaded
Unload ==
  /\ startup.pc = "unload"
  /\ UNCHANGED inputs
  /\ ProcessEnds("clean")
  /\ UNCHANGED <<autoSaveSnapshots, extensionRunning>>

\* shutdowns during cycles: stored snapshots, one of them older than the
\* maximum age, auto-save enabled
InitShut ==
  /\ InitEnv
  /\ InitMonitorOff
  /\ InitMemory
  /\ InitStarted
  /\ limit = ShutLimits
  /\ settings \in {s \in SettingsValues : s.autoSaveEnabled}
  /\ autoSaveSnapshots \in PriorLists

NextShut ==
  \/ Startup
  \/ InitGet
  \/ InitResume
  \/ TimerFire
  \/ TickRun
  \/ \E c \in Slots : CycleStep(c)
  \/ SuspendDispatch
  \/ CleanupSettings
  \/ CleanupGet
  \/ CleanupSet
  \/ Unload
  \/ Advance(AUTO_SAVE_DEBOUNCE_MS)

ShutSpec == InitShut /\ [][NextShut]_vars

\* the lifetime is under way with the periodic timer armed and a re-enable
\* timer of an earlier cooldown due: the scheduler was disabled by failures
\* and a settings change armed the timer again before the cooldown ended
InitReenableDue ==
  /\ flagsDeclared
  /\ autoSaveTimer = TRUE
  /\ intervals = 1
  /\ autoSaveInitMutex = FALSE
  /\ InitFlags
  /\ autoSaveFailureCount = 0
  /\ autoSaveDisabledUntil = 0
  /\ tickPending = FALSE
  /\ reenableTimers = {StartTime}
  /\ initPc = "idle"
  /\ initRead = NoRead
  /\ cyc = [c \in Slots |-> IdleCycle]
  /\ manualResult = "none"
  /\ started = TRUE

\* initialization over the intervals the options page can store
InitPeriod ==
  /\ InitEnv
  /\ InitMonitorOff
  /\ InitStarted
  /\ InitMemory \/ InitReenableDue
  /\ limit = PeriodLimits
  /\ settings \in PeriodSettings
  /\ autoSaveSnapshots = PriorList(0)

NextPeriod ==
  \/ Startup
  \/ InitGet
  \/ InitResume
  \/ \E t \in reenableTimers : ReenableFire(t)
  \/ \E s \in PeriodSettings : OptionsSave(s)
  \/ \E s \in PeriodSettings : handleAutoSaveSettingsChange(s)

PeriodSpec == InitPeriod /\ [][NextPeriod]_vars

\* the unattended runs: no message from the user; every callback that is due
\* is eventually run by the event loop
NextLive ==
  \/ Startup
  \/ InitGet
  \/ InitResume
  \/ TimerFire
  \/ TickRun
  \/ \E t \in reenableTimers : ReenableFire(t)
  \/ \E c \in Slots : CycleStep(c)
  \/ \E d \in {AUTO_SAVE_DEBOUNCE_MS, FAILURE_TIMEOUT_MS} : Advance(d)

LiveSpec ==
  /\ InitLive
  /\ [][NextLive]_vars
  /\ WF_vars(\E t \in reenableTimers : ReenableFire(t))
  /\ WF_vars(InitGet)
  /\ WF_vars(InitResume)

\* the unattended runs in which every awaited storage and tab-platform call
\* of a cycle returns (resolves or rejects)
CycleSpec ==
  /\ InitLive
  /\ [][NextLive]_vars
  /\ \A c \in Slots : WF_vars(CycleStep(c))

(***************************************************************************)
(* Properties.                                                             *)
(***************************************************************************)
\* the activation is inside saveWorkspaceSnapshotAtomic
SavePcs == {"saveRead", "tempSet", "tempGet", "mainSet", "mainGet", "tempRemove", "saveCatch"}

\* [S, ...L] truncated to max entries
Prepended(S, L, max) ==
  [i \in 1..(IF Len(L) + 1 > max THEN max ELSE Len(L) + 1) |-> IF i = 1 THEN S ELSE L[i - 1]]

\* max(maxAutoSaveSnapshots or 10, 1) of a stored value v
ConfiguredMax(v) ==
  IF v = 0 THEN DEFAULT_MAX_SNAPSHOTS ELSE IF v < MIN_MAX_SNAPSHOTS THEN MIN_MAX_SNAPSHOTS ELSE v

\* the list [S, ...L] truncated that activation c is to store
NewListOf(c) ==
  Prepended(cyc[c].snap, cyc[c].pre, ConfiguredMax(cyc[c].settings.maxAutoSaveSnapshots))

\* this step is the return of a successful saveWorkspaceSnapshotAtomic of c
SavedStep(c) == cyc[c].pc = "tempRemove" /\ cyc'[c].pc = "idle" /\ kills' = kills

\* saveWorkspaceSnapshotAtomic of c has just raised 'Atomic snapshot save failed'
Raised(c) == cyc[c].pc = "cleanRemove" /\ cyc[c].why = "atomic"

\* what detectAndRecoverFromCrash reads of the snapshots
RecoveryReads == autoSaveSnapshots

\* C1: while saveWorkspaceSnapshotAtomic(S) runs, when it returns and when the
\* process is killed at any step of it, the stored list is the pre-call list
\* L or [S, ...L] truncated to the maximum count, never anything else; a kill
\* leaves what recovery reads as it was, whatever temporary key it orphans.
C1_StoredListIsOldOrNew ==
  [][/\ \A c \in Slots : cyc[c].pc \in SavePcs =>
          \/ autoSaveSnapshots' = cyc[c].pre
          \/ autoSaveSnapshots' = NewListOf(c)
     /\ kills' # kills => RecoveryReads' = RecoveryReads]_vars

\* C1 witness: the process was killed after the canonical write: the new
\* snapshot heads the list and its temporary key is orphaned
C1_KilledAfterCanonicalWrite ==
  /\ kills > 0
  /\ \A c \in Slots : cyc[c].pc = "idle"
  /\ Len(autoSaveSnapshots) > 1
  /\ autoSaveSnapshots[1].id \in tempKeys

C4_NoSnapshotOlderThanMaxAge ==
  [][\A c \in Slots : SavedStep(c) =>
       \A i \in 1..Len(autoSaveSnapshots') :
         now - autoSaveSnapshots'[i].timestamp <= MAX_AGE_MS]_vars

\* a snapshot fails validation: the rules, one by one
FailsValidation(s) ==
  \/ ~(RequiredFields \subseteq s.fields)
  \/ ~s.workspacesIsArray
  \/ ~s.tabsIsArray
  \/ s.timestamp <= 0
  \/ s.nTabs > MAX_TABS
  \/ s.nWorkspaces > MAX_WORKSPACES
  \/ ~s.tabsHaveUrl

\* C5: a cycle whose snapshot fails validation never writes the snapshot's
\* temporary key nor the canonical list, and ends as a failed cycle (the
\* failure counter goes up by one).
C5_InvalidSnapshotNeverWritten ==
  [][\A c \in Slots :
       cyc[c].pc # "idle" /\ cyc[c].snap # NoSnapshot /\ FailsValidation(cyc[c].snap) =>
         /\ cyc[c].snap.id \notin tempKeys'
         /\ \A i \in 1..Len(autoSaveSnapshots') : autoSaveSnapshots'[i].id # cyc[c].snap.id
         /\ cyc'[c] # cyc[c] => autoSaveSnapshots' = autoSaveSnapshots
         /\ cyc'[c].pc = "idle" /\ kills' = kills =>
              autoSaveFailureCount' = autoSaveFailureCount + 1]_vars

\* C5 witness: a cycle has ended as failed on a snapshot that failed
\* validation, the store being what the earlier lifetimes left
C5_InvalidCycleEndedFailed ==
  /\ hist.last.ev = "invalid"
  /\ autoSaveFailureCount > 0
  /\ tempKeys = {}
  /\ autoSaveSnapshots = PriorList(DEFAULT_MAX_SNAPSHOTS)

\* C6 as stated: the third failed cycle in a row cancels the periodic timer,
\* and no periodic cycle gathers tabs before the cooldown it began has elapsed.
C6_NoPeriodicCycleDuringCooldown ==
  [][/\ hist'.consecFailed = hist.consecFailed + 1
          /\ hist'.consecFailed >= MAX_CONSECUTIVE_FAILURES => ~autoSaveTimer'
     /\ \A c \in Slots :
          cyc[c].pc = "gather" /\ ~cyc[c].manual /\ cyc'[c].snap # NoSnapshot =>
            now >= hist.cooldownEnd]_vars

\* C7: right after a successful cycle, periodic or manual, the failure counter
\* is 0 and the disabled-until marker is 0.
C7_SuccessResetsFailureState ==
  [][\A c \in Slots : SavedStep(c) =>
       autoSaveFailureCount' = 0 /\ autoSaveDisabledUntil' = 0]_vars

\* C7 witness: a cycle has succeeded that found the counter at the threshold
C7_SavedFromDisabledState ==
  /\ hist.last.ev = "saved"
  /\ hist.last.n >= MAX_CONSECUTIVE_FAILURES
  /\ autoSaveFailureCount = 0
  /\ autoSaveDisabledUntil = 0

\* the scheduler was disabled by failures, its cooldown has elapsed and
\* auto-save is enabled in the stored settings
CooldownElapsed ==
  /\ autoSaveFailureCount >= MAX_CONSECUTIVE_FAILURES
  /\ autoSaveDisabledUntil > 0
  /\ now >= autoSaveDisabledUntil
  /\ settings.autoSaveEnabled

\* the cooldown has elapsed and its one-shot re-enable is due
ReenableDue == CooldownElapsed /\ autoSaveDisabledUntil \in reenableTimers

\* the settings read of initializeAutoSave has failed
InitReadFailed == initPc = "resume" /\ ~initRead.ok

Busy ==
  /\ flagsDeclared
  /\ isAutoSaveInProgress \/ now - lastAutoSaveAttempt < AUTO_SAVE_DEBOUNCE_MS

\* this step is the periodic callback calling createWorkspaceSnapshot
PeriodicRequest == tickPending /\ ~tickPending' /\ kills' = kills

\* this step is triggerManualAutoSave calling createWorkspaceSnapshot
ManualRequest == inputs' = inputs + 1 /\ hist'.last = [ev |-> "manual", n |-> inputs']

\* no cycle starts, nothing is written and nothing is queued
Skipped ==
  /\ UNCHANGED <<autoSaveSnapshots, tempKeys>>
  /\ UNCHANGED <<isAutoSaveInProgress, lastAutoSaveAttempt>>
  /\ UNCHANGED <<cyc, reenableTimers, initPc>>
  /\ tickPending' => tickPending

\* C9: a cycle requested while another is in progress, or less than 5 seconds
\* after the previous attempt started, is skipped: nothing is written, the
\* in-progress flag and the last-attempt time stay, nothing is queued, and
\* the skipped cycle leaves the failure counter as its caller handed it over
\* (as it was for the periodic callback, as triggerManualAutoSave had set it
\* before the call for a manual request).
C9_BusyRequestIsSkipped ==
  [][/\ PeriodicRequest /\ Busy => Skipped /\ UNCHANGED failVars
     /\ ManualRequest /\ Busy =>
          Skipped /\ autoSaveFailureCount' = 0 /\ autoSaveDisabledUntil' = 0]_vars

\* C9 witness: a manual request has been skipped for a periodic cycle that is
\* in progress beyond the 5 second window
C9_ManualSkippedDuringCycle ==
  /\ hist.last = [ev |-> "manual", n |-> inputs]
  /\ manualResult = "success"
  /\ isAutoSaveInProgress
  /\ now - lastAutoSaveAttempt >= AUTO_SAVE_DEBOUNCE_MS
  /\ \E c \in Slots : cyc[c].pc # "idle" /\ ~cyc[c].manual

\* C10: at most one cycle is past the gate at a time, and the in-progress
\* flag is set exactly while one is.
C10_OneCycleAtATime ==
  /\ Cardinality({c \in Slots : cyc[c].pc # "idle"}) <= 1
  /\ flagsDeclared => (isAutoSaveInProgress <=> \E c \in Slots : cyc[c].pc # "idle")

\* C10 witness: a periodic callback is queued while a cycle is inside the
\* save, beyond the 5 second window: only the flag keeps it out
C10_CallbackQueuedDuringSave ==
  /\ tickPending
  /\ isAutoSaveInProgress
  /\ now - lastAutoSaveAttempt >= AUTO_SAVE_DEBOUNCE_MS
  /\ \E c \in Slots : cyc[c].pc \in SavePcs

\* this step is the end of a failed activation c: its catch ran
\* handleAutoSaveFailure and triggerManualAutoSave, if it awaited c, returns
FailedStep(c) ==
  /\ cyc[c].pc # "idle"
  /\ cyc'[c].pc = "idle"
  /\ kills' = kills
  /\ hist'.last.ev \in {"failed", "invalid"}

\* C11: when a manually triggered cycle fails, the failure counter and the
\* disabled-until marker have, once triggerManualAutoSave has returned, the
\* values they had before the manual trigger was requested.
C11_FailedManualRestoresFailureState ==
  [][\A c \in Slots : cyc[c].manual /\ FailedStep(c) =>
        /\ autoSaveFailureCount' = cyc[c].prior.count
        /\ autoSaveDisabledUntil' = cyc[c].prior.until]_vars

\* this step is the return of triggerManualAutoSave: the end of the cycle it
\* awaited, or a call whose cycle was refused at the gate
ManualReturn(c) ==
  /\ kills' = kills
  /\ \/ cyc[c].manual /\ cyc[c].pc # "idle" /\ cyc'[c].pc = "idle"
     \/ hist'.last.ev = "manual" /\ hist'.last # hist.last /\ cyc' = cyc

\* C12: triggerManualAutoSave reports success only when its cycle wrote a new
\* snapshot as the first element of the canonical list; when the cycle fails
\* the caller receives a failure result.
C12_SuccessOnlyWhenSnapshotWritten ==
  [][\A c \in Slots : ManualReturn(c) =>
        /\ manualResult' = "success" => SavedStep(c)
        /\ FailedStep(c) => manualResult' = "failure"]_vars

\* the state of the scheduler: the timer, the initialization in flight, the
\* failure tracking and the cycles
schedulerState == <<autoSaveTimer, intervals, autoSaveInitMutex, initPc, initRead, failVars,
                    isAutoSaveInProgress, lastAutoSaveAttempt, tickPending, cyc>>

\* this step is a re-enable callback calling initializeAutoSave while an
\* initialization is in flight
ReenableWhileInitializing ==
  /\ autoSaveInitMutex
  /\ kills' = kills
  /\ reenableTimers' # reenableTimers
  /\ reenableTimers' \subseteq reenableTimers

\* the initialization in flight moves only by its own steps
InitUndisturbed ==
  \/ <<autoSaveInitMutex, initPc, initRead>>' = <<autoSaveInitMutex, initPc, initRead>>
  \/ initPc = "get" /\ initPc' = "resume" /\ autoSaveInitMutex'
  \/ initPc = "resume" /\ initPc' = "idle" /\ ~autoSaveInitMutex'

\* C13: an initializeAutoSave request made while another initialization is in
\* flight changes no scheduler state, and under any interleaving of
\* initialization, settings-change, failure-backoff and re-enable requests at
\* most one periodic auto-save timer is armed at any time.
C13_AtMostOneTimerArmed ==
  [][/\ ReenableWhileInitializing => UNCHANGED schedulerState
     /\ autoSaveInitMutex /\ kills' = kills => InitUndisturbed
     /\ intervals' <= 1
     /\ autoSaveTimer' <=> intervals' = 1]_vars

\* C13 witness: a call of initializeAutoSave was refused by the mutex and the
\* initialization it met is still in flight
C13_RefusedWhileInFlight ==
  /\ hist.init = "refused"
  /\ initPc = "resume"
  /\ autoSaveInitMutex

\* a settings change that disables auto-save has been handled, no call of
\* initializeAutoSave has started since, and none is in flight any more
DisableSettled == hist.off /\ initPc = "idle" /\ ~autoSaveInitMutex

\* C14: after an update-auto-save-settings request that disables auto-save has
\* been handled and every initialization in flight at that moment has
\* finished, no periodic timer is armed, also when the request arrived while
\* an initialization was suspended at its settings read.
C14_NoTimerAfterDisable == DisableSettled => ~autoSaveTimer /\ intervals = 0

\* the positions of the stored workspaces that are marked active
ActivePositions == {i \in DOMAIN workspaces : workspaces[i].isActive}

\* C15: after any sequence of create, switch, delete, crash auto-restore and
\* selective recovery operations, at most one stored workspace has
\* isActive == true.
C15_AtMostOneActiveWorkspace == Cardinality(ActivePositions) <= 1

\* C16: after recoverSelectedWorkspaces, for any list of snapshot ids (also
\* two snapshots holding a workspace with the same id, or one snapshot id
\* listed twice, within one clock tick), the ids of the stored workspaces are
\* pairwise distinct.
C16_WorkspaceIdsDistinct ==
  \A i \in DOMAIN workspaces : \A j \in DOMAIN workspaces :
    workspaces[i].id = workspaces[j].id => i = j

\* this step is the continuation of recoverSelectedWorkspaces in slot o
RecoverStep(o) ==
  /\ ops[o].pc = "write"
  /\ ops[o].kind = "recover"
  /\ ops'[o].pc = "idle"
  /\ kills' = kills

\* w is an inactive copy, named '... (Recovered)', of a listed workspace
IsRecoveredCopyOf(w, op) ==
  /\ ~w.isActive
  /\ Len(w.name) > 1
  /\ w.name[Len(w.name)] = "(Recovered)"
  /\ \E k \in DOMAIN op.snaps : \E i \in DOMAIN op.snaps[k].workspaces :
       /\ \E j \in DOMAIN op.arg : op.arg[j] = op.snaps[k].id
       /\ w.name = Append(op.snaps[k].workspaces[i].name, "(Recovered)")
       /\ w.tabs = op.snaps[k].workspaces[i].tabs

RestoreDone ==
  /\ lives.outcome = "restore"
  /\ startup.pc = "mark"
  /\ startup.S # NoSnapshot
  /\ ~startup.caught

\* the list is a Recovered Session built from the tabs of S, then S.workspaces
IsSessionThenWorkspaces(list, S) ==
  /\ Len(list) = Len(S.workspaces) + 1
  /\ Tail(list) = S.workspaces
  /\ Head(list).name = <<"Recovered Session">>
  /\ Head(list).tabs = S.nTabs
  /\ ~Head(list).isActive

\* C18: when crash auto-restore runs with a non-empty snapshot list whose
\* newest snapshot is S, the stored workspaces afterwards are exactly
\* S.workspaces if S holds no live-tab record, and the Recovered Session built
\* from S.tabs followed by S.workspaces if it does, also when S.workspaces is
\* empty.
C18_RestoreReplacesWorkspaces ==
  RestoreDone =>
    IF startup.S.nTabs = 0
    THEN workspaces = startup.S.workspaces
    ELSE IsSessionThenWorkspaces(workspaces, startup.S)

\* the listener leaves position pc on this step
LeavesPc(pc) == startup.pc = pc /\ startup'.pc # pc /\ kills' = kills

\* detectAndRecoverFromCrash returns to onStartup, which goes on to set the marker
DetectionReturns == startup'.pc = "mark"

\* C19: detectAndRecoverFromCrash leaves the stored workspaces and the
\* snapshot list unchanged and completes without error whenever the
\* was-running marker is unset, or crash recovery is disabled, or
\* auto-restore-on-startup is disabled, or no snapshots exist.
C19_NoMutationWithoutRestore ==
  [][/\ ( /\ LeavesPc("detect")
          /\ \/ ~extensionRunning
             \/ ~recoverySettings.enableCrashRecovery
             \/ ~recoverySettings.autoRestoreOnStartup )
        => /\ DetectionReturns
           /\ lives'.outcome # "restore"
           /\ UNCHANGED <<workspaces, autoSaveSnapshots>>
     /\ ( LeavesPc("snapshots") /\ Len(autoSaveSnapshots) = 0 )
        => /\ DetectionReturns
           /\ UNCHANGED <<workspaces, autoSaveSnapshots>>]_vars

\* C19 witness: a crash was detected with auto-restore disabled and the
\* notification path was taken while workspaces are stored
C19_NotifiedOnly ==
  /\ lives.outcome = "notify"
  /\ startup.pc = "mark"
  /\ Len(workspaces) > 0

\* C20: across process lifetimes, startup recovery is attempted exactly when
\* the previous lifetime started and did not complete a clean shutdown: a
\* start after a clean shutdown (marker removed) never restores or notifies,
\* and a start after a lifetime that was killed without shutdown, with crash
\* recovery enabled, always takes the restore or the notify path.
C20_RecoveryExactlyAfterUncleanEnd ==
  [][LeavesPc("detect") =>
       /\ lives.prev = "clean" => lives'.outcome \notin {"restore", "notify"}
       /\ (lives.prev = "killed" /\ recoverySettings.enableCrashRecovery)
            => lives'.outcome \in {"restore", "notify"}]_vars

(***************************************************************************)
(* The inactivity monitor: tab activity bookkeeping and the suspend sweep.  *)
(* Calls on chrome.storage.local are served in the order they were issued   *)
(* (localQueue); calls on the Tab Platform and on chrome.storage.sync are   *)
(* served on their own.                                                     *)
(***************************************************************************)
StartsWith(s, prefix) == Len(prefix) <= Len(s) /\ SubSeq(s, 1, Len(prefix)) = prefix
EndsWith(s, suffix) ==
  Len(suffix) <= Len(s) /\ SubSeq(s, Len(s) - Len(suffix) + 1, Len(s)) = suffix

\* the callback of protectedDomains.some(...)
ProtectedBy(protected, domain) ==
  IF StartsWith(protected, WildcardPrefix)
  THEN LET baseDomain == SubSeq(protected, 3, Len(protected))
       IN EndsWith(domain, baseDomain)
  ELSE domain = protected

\* tab.url.startsWith throws a TypeError when the tab has no url
ExcludeThrows(tab) == tab.url.kind = "undefined"

\* the exclusion policy without its test of tab.active
ExcludeIgnoringActive(tab, tabSet, protectedDomains) ==
  \/ tab.url.kind \in {"chrome", "chrome-extension"}
  \/ tabSet.excludePinnedFromAutoClose /\ tab.pinned
  \/ tabSet.excludeAudibleFromAutoClose /\ tab.audible
  \/ tab.loading

shouldExcludeFromAutoClose(tab, tabSet, protectedDomains) ==
  \/ tab.url.kind \in {"chrome", "chrome-extension"}
  \/ tab.active
  \/ tabSet.excludePinnedFromAutoClose /\ tab.pinned
  \/ tabSet.excludeAudibleFromAutoClose /\ tab.audible
  \/ tab.loading
  \/ /\ Len(protectedDomains) > 0
     /\ tab.url.kind = "web"
     /\ \E k \in 1..Len(protectedDomains) : ProtectedBy(protectedDomains[k], tab.url.host)

TimeoutMs(tabSet) ==
  (IF tabSet.inactiveTabTimeoutMinutes # 0 THEN tabSet.inactiveTabTimeoutMinutes
   ELSE DEFAULT_TIMEOUT_MINUTES) * 60 * 1000

\* updateTabActivity: the record it builds at time t from the map it read
Updated(map, id, t) ==
  [map EXCEPT ![id] =
     [present |-> TRUE, lastAccessed |-> t,
      createdAt |-> IF map[id].present /\ map[id].createdAt # 0 THEN map[id].createdAt ELSE t,
      suspended |-> FALSE, suspendedAt |-> NullTime]]

\* cleanupTabActivity: delete tabActivity[tabId]
Deleted(map, id) == [map EXCEPT ![id] = NoRecord]

\* suspendInactiveTabs: the marks it sets on a record
MarkedWithoutTime(r, t) == [r EXCEPT !.suspended = TRUE]
Marked(r, t) == [r EXCEPT !.suspended = TRUE, !.suspendedAt = t]

BatchIds(batch) == {batch[k].id : k \in 1..Len(batch)}
MarkedMap(map, batch, t) ==
  [id \in TabIds |-> IF id \in BatchIds(batch) /\ map[id].present
                     THEN Marked(map[id], t) ELSE map[id]]

\* what a query can find: at most one tab that is not a plain web page
QueriedProfiles ==
  {f \in [TabIds -> TabProfiles] : Cardinality({id \in TabIds : f[id] # PlainTab}) <= 1}

\* chrome.tabs.query({}): the open tabs with the properties they have now
Queried(profiles) ==
  LET ids == SelectSeq(TabOrder, LAMBDA id : tabs[id].open)
  IN [k \in 1..Len(ids) |->
        [id |-> ids[k], active |-> tabs[ids[k]].active,
         discarded |-> tabs[ids[k]].discarded] @@ profiles[ids[k]]]

\* a loop that takes a tab without a record as inactive
RECURSIVE ScanLoose(_, _, _)
ScanLoose(sw, rest, batch) ==
  IF rest = <<>> THEN [pc |-> "collected", rest |-> rest, batch |-> batch]
  ELSE LET tab == Head(rest)
       IN IF ExcludeThrows(tab) THEN [pc |-> "threw", rest |-> rest, batch |-> batch]
          ELSE IF shouldExcludeFromAutoClose(tab, sw.settings, sw.settings.protectedDomains)
                  \/ tab.discarded
               THEN ScanLoose(sw, Tail(rest), batch)
          ELSE IF ~sw.map[tab.id].present THEN ScanLoose(sw, Tail(rest), Append(batch, tab))
          ELSE IF sw.t - sw.map[tab.id].lastAccessed > TimeoutMs(sw.settings)
               THEN ScanLoose(sw, Tail(rest), Append(batch, tab))
          ELSE ScanLoose(sw, Tail(rest), batch)

\* the for loop of checkAndCloseInactiveTabs over the tabs still to be looked
\* at, up to its next await: it ends collected, thrown, or awaiting
\* updateTabActivity for the first of `rest`
RECURSIVE Scan(_, _, _)
Scan(sw, rest, batch) ==
  IF rest = <<>> THEN [pc |-> "collected", rest |-> rest, batch |-> batch]
  ELSE LET tab == Head(rest)
       IN IF ExcludeThrows(tab) THEN [pc |-> "threw", rest |-> rest, batch |-> batch]
          ELSE IF shouldExcludeFromAutoClose(tab, sw.settings, sw.settings.protectedDomains)
                  \/ tab.discarded
               THEN Scan(sw, Tail(rest), batch)
          ELSE IF ~sw.map[tab.id].present THEN [pc |-> "update", rest |-> rest, batch |-> batch]
          ELSE IF sw.t - sw.map[tab.id].lastAccessed > TimeoutMs(sw.settings)
               THEN Scan(sw, Tail(rest), Append(batch, tab))
          ELSE Scan(sw, Tail(rest), batch)

Requested(who, op, value) == [who |-> who, op |-> op, value |-> value]
Served(who, op) ==
  /\ localQueue # <<>>
  /\ Head(localQueue).who = who
  /\ Head(localQueue).op = op

\* chrome.tabs.discard(tabId): the platform discards a tab unless it is
\* closed, active or already discarded; the call can fail for other reasons
CanDiscard(id) == tabs[id].open /\ ~tabs[id].active /\ ~tabs[id].discarded
Discard(id) ==
  \E ok \in {TRUE, FALSE} :
    /\ ok => CanDiscard(id)
    /\ IF ok = CanDiscard(id) THEN Resolve ELSE Reject
    /\ tabs' = IF ok THEN [tabs EXCEPT ![id].discarded = TRUE] ELSE tabs
    /\ discards' = discards \cup {[id |-> id, active |-> tabs[id].active, ok |-> ok]}

\* suspendInactiveTabs(tabsToSuspend) up to its first await
StartSuspend(batch, tabSet) ==
  /\ susp' = [pc |-> "discard", batch |-> batch, i |-> 1, due |-> 0, map |-> <<>>,
              settings |-> tabSet]
  /\ Discard(batch[1].id)

\* processInactiveTabsForSuspension
Process(batch, tabSet) ==
  IF tabSet.notifyBeforeAutoClose
  THEN /\ susp' = [pc |-> "timer", batch |-> batch, i |-> 0, due |-> now + SUSPEND_DELAY_MS,
                   map |-> <<>>, settings |-> tabSet]
       /\ UNCHANGED <<tabs, discards, inputs>>
  ELSE StartSuspend(batch, tabSet)

\* the sweep runs on over `rest` with the calls in `queue` still to be served
SweepContinue(sw, rest, batch, queue) ==
  LET r == Scan(sw, rest, batch)
  IN \/ /\ r.pc = "threw"
        /\ sweep' = IdleSweep
        /\ localQueue' = queue
        /\ UNCHANGED <<susp, tabs, discards, inputs>>
     \/ /\ r.pc = "update"
        /\ sweep' = [sw EXCEPT !.pc = "call-get", !.rest = Tail(r.rest), !.batch = r.batch,
                               !.call = [IdleHandler EXCEPT !.tab = Head(r.rest).id,
                                                            !.t = now]]
        /\ localQueue' = Append(queue, Requested(<<"sweep", 0>>, "get", <<>>))
        /\ UNCHANGED <<susp, tabs, discards, inputs>>
     \/ /\ r.pc = "collected"
        /\ sweep' = IdleSweep
        /\ localQueue' = queue
        /\ IF Len(r.batch) > 0 THEN Process(r.batch, sw.settings)
           ELSE UNCHANGED <<susp, tabs, discards, inputs>>

monFrame == <<now, advances, kills, limit, storeVars, memVars, hist, recVars, tabSettings,
              match, inactiveTabsTimer>>

\* the interval of initializeInactiveTabCleanup fires
SweepStart ==
  /\ inactiveTabsTimer
  /\ sweep.pc = "idle"
  /\ susp.pc = "idle"
  /\ sweep' = [IdleSweep EXCEPT !.pc = "settings"]
  /\ UNCHANGED <<monFrame, inputs, tabs, tabActivity, localQueue, handlers, susp, discards>>

\* await chrome.storage.sync.get('settings') is served
SweepSettings ==
  /\ sweep.pc = "settings"
  /\ IF tabSettings.autoCloseInactiveTabs
     THEN /\ sweep' = [sweep EXCEPT !.pc = "gather", !.settings = tabSettings, !.t = now]
          /\ localQueue' = Append(localQueue, Requested(<<"sweep", 0>>, "get", <<>>))
     ELSE /\ sweep' = IdleSweep
          /\ UNCHANGED localQueue
  /\ UNCHANGED <<monFrame, inputs, tabs, tabActivity, handlers, susp, discards>>

\* await Promise.all([chrome.tabs.query({}), chrome.storage.local.get(...)])
SweepGather ==
  /\ sweep.pc = "gather"
  /\ Served(<<"sweep", 0>>, "get")
  /\ \E profiles \in QueriedProfiles :
       SweepContinue([sweep EXCEPT !.map = tabActivity], Queried(profiles), <<>>,
                     Tail(localQueue))
  /\ UNCHANGED <<monFrame, tabActivity, handlers>>

\* the sweep's await updateTabActivity(tab.id): its read is served
SweepCallGet ==
  /\ sweep.pc = "call-get"
  /\ Served(<<"sweep", 0>>, "get")
  /\ sweep' = [sweep EXCEPT !.pc = "call-set"]
  /\ localQueue' = Append(Tail(localQueue),
                          Requested(<<"sweep", 0>>, "set",
                                    Updated(tabActivity, sweep.call.tab, sweep.call.t)))
  /\ UNCHANGED <<monFrame, inputs, tabs, tabActivity, handlers, susp, discards>>

\* its write is served; the loop goes on with the next tab
SweepCallSet ==
  /\ sweep.pc = "call-set"
  /\ Served(<<"sweep", 0>>, "set")
  /\ tabActivity' = Head(localQueue).value
  /\ SweepContinue(sweep, sweep.rest, sweep.batch, Tail(localQueue))
  /\ UNCHANGED <<monFrame, handlers>>

\* the setTimeout of processInactiveTabsForSuspension fires
SuspTimer ==
  /\ susp.pc = "timer"
  /\ now >= susp.due
  /\ StartSuspend(susp.batch, susp.settings)
  /\ UNCHANGED <<monFrame, tabActivity, localQueue, handlers, sweep>>

\* a loop whose first failed discard ends suspendInactiveTabs
DiscardReturnsStopping ==
  /\ susp.pc = "discard"
  /\ IF \E c \in discards : c.id = susp.batch[susp.i].id /\ ~c.ok
     THEN /\ susp' = IdleSusp
          /\ discards' = {}
          /\ UNCHANGED <<localQueue, tabs, inputs>>
     ELSE IF susp.i < Len(susp.batch)
     THEN /\ susp' = [susp EXCEPT !.i = @ + 1]
          /\ Discard(susp.batch[susp.i + 1].id)
          /\ UNCHANGED localQueue
     ELSE /\ susp' = [susp EXCEPT !.pc = "get"]
          /\ localQueue' = Append(localQueue, Requested(<<"susp", 0>>, "get", <<>>))
          /\ UNCHANGED <<tabs, discards, inputs>>
  /\ UNCHANGED <<monFrame, tabActivity, handlers, sweep>>

\* await chrome.tabs.discard(tabId) returns: the next call, or the map is read
DiscardReturns ==
  /\ susp.pc = "discard"
  /\ IF susp.i < Len(susp.batch)
     THEN /\ susp' = [susp EXCEPT !.i = @ + 1]
          /\ Discard(susp.batch[susp.i + 1].id)
          /\ UNCHANGED localQueue
     ELSE /\ susp' = [susp EXCEPT !.pc = "get"]
          /\ localQueue' = Append(localQueue, Requested(<<"susp", 0>>, "get", <<>>))
          /\ UNCHANGED <<tabs, discards, inputs>>
  /\ UNCHANGED <<monFrame, tabActivity, handlers, sweep>>

\* suspendInactiveTabs: its read of the map is served
SuspGet ==
  /\ susp.pc = "get"
  /\ Served(<<"susp", 0>>, "get")
  /\ susp' = [susp EXCEPT !.pc = "set"]
  /\ localQueue' = Append(Tail(localQueue),
                          Requested(<<"susp", 0>>, "set",
                                    MarkedMap(tabActivity, susp.batch, now)))
  /\ UNCHANGED <<monFrame, inputs, tabs, tabActivity, handlers, sweep, discards>>

\* its write is served
SuspSet ==
  /\ susp.pc = "set"
  /\ Served(<<"susp", 0>>, "set")
  /\ tabActivity' = Head(localQueue).value
  /\ localQueue' = Tail(localQueue)
  /\ susp' = IdleSusp
  /\ discards' = {}
  /\ UNCHANGED <<monFrame, inputs, tabs, handlers, sweep>>

\* a listener calls updateTabActivity(tabId) or cleanupTabActivity(tabId):
\* Date.now() is taken and the read of the map is issued
HandlerCall(kind, id) ==
  \E h \in HandlerSlots :
    /\ handlers[h].pc = "idle"
    /\ \A g \in HandlerSlots : g < h => handlers[g].pc # "idle"
    /\ handlers' = [handlers EXCEPT ![h] = [IdleHandler EXCEPT !.pc = "get", !.kind = kind,
                                                               !.tab = id, !.t = now]]
    /\ localQueue' = Append(localQueue, Requested(<<"handler", h>>, "get", <<>>))

\* chrome.tabs.onActivated: the user brings a tab to the front (a discarded
\* tab is reloaded)
onActivated(id) ==
  /\ Input
  /\ tabs[id].open /\ ~tabs[id].active
  /\ tabs' = [k \in TabIds |-> IF k = id THEN [tabs[k] EXCEPT !.active = TRUE, !.discarded = FALSE]
                               ELSE [tabs[k] EXCEPT !.active = FALSE]]
  /\ HandlerCall("update", id)
  /\ UNCHANGED <<monFrame, tabActivity, sweep, susp, discards>>

\* chrome.tabs.onCreated: a tab is opened in the background
onCreated(id) ==
  /\ Input
  /\ ~tabs[id].open
  /\ tabs' = [tabs EXCEPT ![id] = OpenTab]
  /\ HandlerCall("update", id)
  /\ UNCHANGED <<monFrame, tabActivity, sweep, susp, discards>>

\* chrome.tabs.onUpdated with status 'complete': the listener reaches its
\* call of updateTabActivity
onUpdated(id) ==
  /\ Input
  /\ tabs[id].open /\ ~tabs[id].discarded
  /\ HandlerCall("update", id)
  /\ UNCHANGED <<monFrame, tabs, tabActivity, sweep, susp, discards>>

\* chrome.tabs.onRemoved: the tab is closed
onRemoved(id) ==
  /\ Input
  /\ tabs[id].open
  /\ tabs' = [tabs EXCEPT ![id] = ClosedTab]
  /\ HandlerCall("cleanup", id)
  /\ UNCHANGED <<monFrame, tabActivity, sweep, susp, discards>>

\* the read of a listener's call is served
HandlerGet(h) ==
  /\ handlers[h].pc = "get"
  /\ Served(<<"handler", h>>, "get")
  /\ LET c == handlers[h]
     IN IF c.kind = "update"
        THEN /\ handlers' = [handlers EXCEPT ![h].pc = "set"]
             /\ localQueue' = Append(Tail(localQueue),
                                     Requested(<<"handler", h>>, "set",
                                               Updated(tabActivity, c.tab, c.t)))
        ELSE IF tabActivity[c.tab].present
        THEN /\ handlers' = [handlers EXCEPT ![h].pc = "set"]
             /\ localQueue' = Append(Tail(localQueue),
                                     Requested(<<"handler", h>>, "set",
                                               Deleted(tabActivity, c.tab)))
        ELSE /\ handlers' = [handlers EXCEPT ![h] = IdleHandler]
             /\ localQueue' = Tail(localQueue)
  /\ UNCHANGED <<monFrame, inputs, tabs, tabActivity, sweep, susp, discards>>

\* its write is served
HandlerSet(h) ==
  /\ handlers[h].pc = "set"
  /\ Served(<<"handler", h>>, "set")
  /\ tabActivity' = Head(localQueue).value
  /\ localQueue' = Tail(localQueue)
  /\ handlers' = [handlers EXCEPT ![h] = IdleHandler]
  /\ UNCHANGED <<monFrame, inputs, tabs, sweep, susp, discards>>

\* time passes: the notification delay while it runs, or the inactivity
\* timeout of the stored settings; a storage call is served before the clock
\* moves by such a span
TimePasses(d) ==
  /\ advances < limit.advances
  /\ localQueue = <<>>
  /\ d = SUSPEND_DELAY_MS => susp.pc = "timer" /\ susp.due > now
  /\ now' = now + d
  /\ advances' = advances + 1
  /\ UNCHANGED <<inputs, kills, limit, storeVars, memVars, hist, recVars, monVars>>

\* tab 1 and tab 2 are open, tab 1 may be the active tab of its window; both
\* were last seen one check interval before the script was loaded, or tab 2
\* has no record yet, or tab 2 has just been opened and the call of its
\* onCreated listener is in flight, or tab 2 is not open
RecordedAt(t) == [present |-> TRUE, lastAccessed |-> t, createdAt |-> t,
                  suspended |-> FALSE, suspendedAt |-> NullTime]
InitTab ==
  /\ InitEnv
  /\ flagsDeclared = FALSE
  /\ InitMemory
  /\ InitStarted
  /\ limit = TabLimits
  /\ settings = NoSettings
  /\ autoSaveSnapshots = PriorList(0)
  /\ \E a \in BOOLEAN :
       tabs \in {[id \in TabIds |-> [OpenTab EXCEPT !.active = (a /\ id = 1)]],
                 [id \in TabIds |-> IF id = 1 THEN [OpenTab EXCEPT !.active = a] ELSE ClosedTab]}
  /\ tabSettings \in TabSettingsValues
  /\ tabActivity \in {[id \in TabIds |-> RecordedAt(StartTime - CHECK_INTERVAL_MS)],
                      [id \in TabIds |-> IF id = 1 THEN RecordedAt(StartTime - CHECK_INTERVAL_MS)
                                         ELSE NoRecord]}
  /\ ~tabs[2].open => ~tabActivity[2].present
  /\ \/ /\ localQueue = <<>>
        /\ handlers = [h \in HandlerSlots |-> IdleHandler]
     \/ /\ tabs[2].open /\ ~tabActivity[2].present
        /\ localQueue = <<Requested(<<"handler", 1>>, "get", <<>>)>>
        /\ handlers = [h \in HandlerSlots |->
                         IF h = 1 THEN [IdleHandler EXCEPT !.pc = "get", !.kind = "update",
                                                           !.tab = 2, !.t = StartTime]
                         ELSE IdleHandler]
  /\ sweep = IdleSweep
  /\ susp = IdleSusp
  /\ match = NoMatch
  /\ discards = {}
  /\ inactiveTabsTimer = TRUE

NextTab ==
  \/ SweepStart
  \/ SweepSettings
  \/ SweepGather
  \/ SweepCallGet
  \/ SweepCallSet
  \/ SuspTimer
  \/ DiscardReturns
  \/ SuspGet
  \/ SuspSet
  \/ \E id \in TabIds : onActivated(id)
  \/ \E id \in TabIds : onCreated(id)
  \/ \E id \in TabIds : onUpdated(id)
  \/ \E id \in TabIds : onRemoved(id)
  \/ \E h \in HandlerSlots : HandlerGet(h)
  \/ \E h \in HandlerSlots : HandlerSet(h)
  \/ TimePasses(SUSPEND_DELAY_MS)
  \/ TimePasses(TimeoutMs(tabSettings))

TabSpec == InitTab /\ [][NextTab]_vars

\* the options page stores settings with auto-suspension turned off
OptionsSaveSuspensionOff ==
  /\ tabSettings.autoCloseInactiveTabs
  /\ tabSettings' = [tabSettings EXCEPT !.autoCloseInactiveTabs = FALSE]
  /\ UNCHANGED <<envVars, storeVars, memVars, hist, recVars, tabs, tabActivity, localQueue,
                 handlers, sweep, susp, match, inactiveTabsTimer, discards>>

\* an 'updateInactiveTabsSettings' message with the stored settings, which
\* have auto-suspension off: the interval is cleared and nothing is armed
handleInactiveTabsSettingsChange(newSettings) ==
  /\ ~newSettings.autoCloseInactiveTabs
  /\ Input
  /\ inactiveTabsTimer' = FALSE
  /\ hist' = [hist EXCEPT !.pending = (susp.pc = "timer")]
  /\ UNCHANGED <<now, advances, kills, limit, storeVars, memVars, recVars, tabs, tabSettings,
                 tabActivity, localQueue, handlers, sweep, susp, match, discards>>

\* a monitor run with the default settings, in which suspension is turned off
InitDown == InitTab /\ tabSettings = DefaultTabSettings

NextDown ==
  \/ NextTab
  \/ OptionsSaveSuspensionOff
  \/ handleInactiveTabsSettingsChange(tabSettings)

DownSpec == InitDown /\ [][NextDown]_vars

\* C21: no tab for which shouldExcludeFromAutoClose is true of what the sweep
\* queried (active, loading, internal URL, pinned or audible with the
\* exclusion on, protected domain), and no tab the query reported as
\* discarded, is in the batch handed to suspendInactiveTabs.
C21_NoExcludedTabInBatch ==
  susp.pc # "idle" =>
    \A k \in 1..Len(susp.batch) :
      LET tab == susp.batch[k]
          rules == susp.settings.protectedDomains
      IN /\ ~tab.active
         /\ ~tab.loading
         /\ tab.url.kind \notin {"undefined", "chrome", "chrome-extension"}
         /\ ~(tab.pinned /\ susp.settings.excludePinnedFromAutoClose)
         /\ ~(tab.audible /\ susp.settings.excludeAudibleFromAutoClose)
         /\ ~(tab.url.kind = "web" /\ \E r \in 1..Len(rules) : ProtectedBy(rules[r], tab.url.host))
         /\ ~tab.discarded

\* C21 witness: a sweep found tab 1 active and tab 2 inactive, and its batch
\* is tab 2 alone
C21_BatchWithoutActiveTab ==
  /\ inputs = 0
  /\ tabs[1].open /\ tabs[1].active
  /\ susp.pc # "idle"
  /\ BatchIds(susp.batch) = {2}

\* C22: chrome.tabs.discard is never invoked on a tab that is the active tab
\* at the moment of the call, also when the batch was deferred by the 3 s
\* notification delay and the user activated a candidate during the delay.
C22_NoDiscardOfActiveTab == \A c \in discards : ~c.active

(***************************************************************************)
(* Protected-domain matching on its own: one rule, one hostname.            *)
(***************************************************************************)
\* hostnames of at most n characters: labels are not empty
Hostnames(n) ==
  {h \in UNION {[1..k -> Chars] : k \in 1..n} :
     /\ h[1] # "." /\ h[Len(h)] # "."
     /\ \A i \in 1..(Len(h) - 1) : ~(h[i] = "." /\ h[i + 1] = ".")}
\* a line of the protected-domains field: a hostname, or "*." and a hostname
Rules == Hostnames(MaxBaseLen) \cup {WildcardPrefix \o b : b \in Hostnames(MaxBaseLen)}

InitMatch ==
  /\ InitEnv
  /\ flagsDeclared = FALSE
  /\ InitMemory
  /\ InitStarted
  /\ limit = TabLimits
  /\ settings = NoSettings
  /\ autoSaveSnapshots = PriorList(0)
  /\ tabs = [id \in TabIds |-> ClosedTab]
  /\ tabSettings = DefaultTabSettings
  /\ tabActivity = [id \in TabIds |-> NoRecord]
  /\ localQueue = <<>>
  /\ handlers = [h \in HandlerSlots |-> IdleHandler]
  /\ sweep = IdleSweep
  /\ susp = IdleSusp
  /\ discards = {}
  /\ inactiveTabsTimer = FALSE
  /\ \E r \in Rules, h \in Hostnames(MaxHostLen) :
       match = [pc |-> "call", rule |-> r, host |-> h, result |-> FALSE]

\* shouldExcludeFromAutoClose is called for a background web tab that is
\* neither pinned, audible nor loading, with the rule as the protected list
MatchCall ==
  /\ match.pc = "call"
  /\ match' = [match EXCEPT
       !.pc = "returned",
       !.result = shouldExcludeFromAutoClose(
                    [id |-> 1, active |-> FALSE, discarded |-> FALSE, pinned |-> FALSE,
                     audible |-> FALSE, loading |-> FALSE, url |-> WebUrl(match.host)],
                    DefaultTabSettings, <<match.rule>>)]
  /\ UNCHANGED <<envVars, storeVars, memVars, hist, recVars, tabs, tabSettings, tabActivity,
                 localQueue, handlers, sweep, susp, inactiveTabsTimer, discards>>

MatchSpec == InitMatch /\ [][MatchCall]_vars

\* C23: a rule "*.B" protects hostname h if and only if h is B or ends with
\* "." followed by B; any other rule protects h if and only if h equals it.
C23_WildcardMatchesSubdomainsOnly ==
  match.pc = "returned" =>
    (match.result <=>
       IF StartsWith(match.rule, WildcardPrefix)
       THEN LET B == SubSeq(match.rule, 3, Len(match.rule))
            IN match.host = B \/ EndsWith(match.host, <<".">> \o B)
       ELSE match.host = match.rule)

\* C24: every stored TabActivity record has lastAccessed >= createdAt, and
\* suspended = true implies suspendedAt is not null, after any sequence of
\* create, activate, navigation-complete, sweep and suspend events.
C24_ActivityRecordsWellFormed ==
  \A id \in TabIds :
    tabActivity[id].present =>
      /\ tabActivity[id].lastAccessed >= tabActivity[id].createdAt
      /\ tabActivity[id].suspended => tabActivity[id].suspendedAt # NullTime

\* C24 witness: one record was marked suspended by suspendInactiveTabs, the
\* other was refreshed by a listener after it was created
C24_SuspendedAndRefreshed ==
  \E id, other \in TabIds :
    /\ tabActivity[id].present /\ tabActivity[id].suspended
    /\ tabActivity[other].present
    /\ tabActivity[other].lastAccessed > tabActivity[other].createdAt

\* no call on the activity map is in flight
ActivityQuiet ==
  /\ localQueue = <<>>
  /\ \A h \in HandlerSlots : handlers[h].pc = "idle"
  /\ sweep.pc = "idle"
  /\ susp.pc \in {"idle", "timer"}

\* C25: once a tab has closed and every activity handler in flight has
\* finished, the tabActivity map holds no record for that tab, however
\* cleanupTabActivity interleaved with updateTabActivity and
\* suspendInactiveTabs.
C25_NoRecordForClosedTab ==
  ActivityQuiet => \A id \in TabIds : ~tabs[id].open => ~tabActivity[id].present

\* a 'clearAutoSaveData' message has been handled in this step
ClearHandled == hist'.clear # hist.clear /\ hist'.clear # "none"

\* C26: after a 'clearAutoSaveData' message has been handled the canonical
\* autoSaveSnapshots list is empty and the caller has received a success
\* response.
C26_ClearEmptiesSnapshots ==
  [][ClearHandled => autoSaveSnapshots' = <<>> /\ hist'.clear = "success"]_vars

\* C27: the stored workspace list never holds more workspaces than the
\* configured maximum after any mutation, whether by saveCurrentWorkspace,
\* crash auto-restore or selective recovery.
C27_WorkspacesWithinMaximum ==
  [][workspaces' # workspaces =>
       Len(workspaces') <= MaxWorkspacesOf(StoredMaxWorkspaces)]_vars

\* this step ends a cycle of c that passed validation and failed inside
\* saveWorkspaceSnapshotAtomic, every storage call of cleanupFailedSnapshot
\* having resolved: its remove and its get, and its set if it issued one
CleanedUpStep(c) ==
  /\ cyc[c].why = "atomic"
  /\ cyc[c].pc \in {"cleanGet", "cleanSet"}
  /\ cyc'[c].pc = "idle"
  /\ kills' = kills
  /\ inputs' = inputs

\* the ids of the entries of a snapshot list
IdsOf(list) == {list[i].id : i \in DOMAIN list}

\* C28: when a cycle that passed validation and failed in the atomic write
\* has finished, the storage calls of its cleanup having succeeded, the store
\* holds no temporary key of that snapshot's id and the canonical list holds
\* no entry of that id.
C28_FailedCycleLeavesNoTrace ==
  [][\A c \in Slots : CleanedUpStep(c) =>
        /\ cyc[c].snap.id \notin tempKeys'
        /\ cyc[c].snap.id \notin IdsOf(autoSaveSnapshots')]_vars

\* a cycle failed after its canonical write: of the two stored snapshots one
\* was truncated away by the write, the new one filtered out by the cleanup
C28_WrittenEntryFilteredOut ==
  /\ hist.last.ev = "failed"
  /\ tempKeys = {}
  /\ Len(autoSaveSnapshots) = 1
  /\ autoSaveSnapshots[1] = PriorSnapshot(1, 2)

\* every entry of old is an entry of new, and in the same order
KeptInOrder(old, new) ==
  SelectSeq(new, LAMBDA x : \E i \in DOMAIN old : old[i] = x) = old

\* C29: a failed cycle, its cleanupFailedSnapshot included, removes no
\* snapshot that was stored before it: when the cycle ends, every snapshot of
\* the list it found is still in the canonical list, in the same order,
\* whichever step of the write protocol failed.
C29_FailedCycleKeepsStoredSnapshots ==
  [][\A c \in Slots : FailedStep(c) /\ cyc[c].why = "atomic" =>
        KeptInOrder(cyc[c].pre, autoSaveSnapshots')]_vars

\* the positions in the stored list of the snapshots whose atomic save has
\* completed: those of earlier lifetimes, and the one the last cycle saved
\* while no later cycle has begun
SavedPositions ==
  {i \in DOMAIN autoSaveSnapshots :
     \/ \E l \in PriorLists : \E j \in DOMAIN l : autoSaveSnapshots[i] = l[j]
     \/ /\ hist.last.ev = "saved"
        /\ \A c \in Slots : cyc[c].pc = "idle"
        /\ autoSaveSnapshots[i].id = SnapshotId(lastAutoSaveAttempt)}

\* the entry at position i may go by eviction: it is older than the maximum
\* age, one more snapshot pushes it past the count of saveWorkspaceSnapshotAtomic,
\* or it is at or past the count of cleanupAutoSaveData
Evictable(i) ==
  \/ autoSaveSnapshots[i].timestamp <= now - MAX_AGE_MS
  \/ i + 1 > MaxSnapshotsOf(settings)
  \/ i - 1 >= (IF settings.maxAutoSaveSnapshots = 0 THEN DEFAULT_MAX_SNAPSHOTS
               ELSE settings.maxAutoSaveSnapshots)

\* C30: a snapshot whose atomic save completed stays in the canonical list
\* until count or age eviction drops it (or an explicit clear, which these
\* runs do not contain), however the cycles interleave with the
\* cleanupAutoSaveData of onSuspend and with cleanupFailedSnapshot.
C30_SavedSnapshotStaysUntilEvicted ==
  [][\A i \in SavedPositions :
        \/ autoSaveSnapshots[i].id \in IdsOf(autoSaveSnapshots')
        \/ Evictable(i)]_vars

\* C31: in every reachable state the canonical autoSaveSnapshots list is
\* ordered newest first: timestamps do not increase from the first entry to
\* the last, whatever successful and failed writes, cleanups and evictions
\* came before, the clock never running backwards.
C31_NewestFirst ==
  \A i \in DOMAIN autoSaveSnapshots : \A j \in DOMAIN autoSaveSnapshots :
    i < j => autoSaveSnapshots[i].timestamp >= autoSaveSnapshots[j].timestamp

\* a snapshot taken after the clock moved stands in front of an older one
\* of this run, in a later lifetime
C31_LaterSnapshotInFront ==
  /\ kills > 0
  /\ Len(autoSaveSnapshots) >= 2
  /\ autoSaveSnapshots[1].timestamp > StartTime
  /\ autoSaveSnapshots[2].timestamp = StartTime

\* this step is the end of an initializeAutoSave that met no error
InitCompletes == initPc = "resume" /\ initPc' = "idle" /\ initRead.ok /\ kills' = kills

\* C32: when initializeAutoSave completes without error, a periodic timer is
\* armed if and only if the settings it read have autoSaveEnabled true; the
\* period it runs with is max(autoSaveInterval or 60, 10) seconds, never below
\* 10 s whatever value is configured; and no timer that ran before the call
\* is left running.
C32_ArmedIffEnabledWithFlooredPeriod ==
  [][InitCompletes =>
       /\ autoSaveTimer' <=> initRead.enabled
       /\ intervals' = (IF initRead.enabled THEN 1 ELSE 0)
       /\ autoSaveTimer' =>
            /\ hist'.period \div 1000 = IntervalOf(initRead.interval)
            /\ hist'.period >= MIN_INTERVAL_S * 1000]_vars

\* this step is the return of initializeAutoSave from its continuation
InitReturns == initPc = "resume" /\ initPc' = "idle" /\ kills' = kills

\* C33: on every exit path of initializeAutoSave (timer armed, auto-save
\* disabled in the settings, error while reading them) the reentrancy flag is
\* released; on the error path no periodic timer is left armed; and the flag
\* is never set while no initialization is in flight.
C33_InitFlagReleasedOnEveryExit ==
  [][/\ InitReturns => ~autoSaveInitMutex'
     /\ InitReturns /\ ~initRead.ok => ~autoSaveTimer' /\ intervals' = 0
     /\ autoSaveInitMutex' => initPc' # "idle"]_vars

\* an initialization has left by its error path
C33_LeftByErrorPath ==
  /\ hist.done = "error"
  /\ initPc = "idle"
  /\ ~autoSaveInitMutex
  /\ ~autoSaveTimer

\* C34: every cycle that passes the debounce gate eventually clears the
\* in-progress flag, whichever path it takes (saved, found disabled,
\* validation failure, write failure, cleanup failure), provided each awaited
\* call returns; from the gate until then the flag stays true.
C34_InProgressEventuallyCleared ==
  /\ [](\A c \in Slots : cyc[c].pc # "idle" => isAutoSaveInProgress)
  /\ isAutoSaveInProgress ~> ~isAutoSaveInProgress

\* a cycle has failed and has left the flag cleared
C34_ClearedAfterFailedCycle ==
  /\ hist.last.ev \in {"failed", "invalid"}
  /\ \A c \in Slots : cyc[c].pc = "idle"
  /\ lastAutoSaveAttempt > 0
  /\ ~isAutoSaveInProgress

\* the re-read of step 1 returns settings with auto-save off and the cycle
\* returns
FoundDisabled(c) ==
  /\ cyc[c].pc = "settings"
  /\ cyc'[c].pc = "idle"
  /\ ~settings.autoSaveEnabled
  /\ hist'.last.ev = "aborted"
  /\ kills' = kills

\* C35: a cycle that finds autoSaveEnabled false when it re-reads the stored
\* settings has written no temporary key and no canonical list, writes none
\* on its way out, and leaves the failure counter and the disabled-until
\* marker as they are.
C35_DisabledCycleWritesNothing ==
  [][\A c \in Slots : FoundDisabled(c) =>
       /\ ~cyc[c].wrote
       /\ cyc[c].snap = NoSnapshot
       /\ tempKeys' = tempKeys
       /\ autoSaveSnapshots' = autoSaveSnapshots
       /\ autoSaveFailureCount' = autoSaveFailureCount
       /\ autoSaveDisabledUntil' = autoSaveDisabledUntil]_vars

\* a cycle started while auto-save was on has found it off, after an earlier
\* failure had been counted
C35_AbortedWithFailureCounted ==
  /\ hist.last.ev = "aborted"
  /\ ~settings.autoSaveEnabled
  /\ autoSaveFailureCount > 0
  /\ tempKeys = {}
  /\ \A c \in Slots : cyc[c].pc = "idle"

\* this step is handleAutoSaveSettingsChange, up to its await
SettingsChangeStep ==
  /\ inputs' = inputs + 1
  /\ settings' = settings
  /\ cyc' = cyc
  /\ hist'.last = hist.last
  /\ ~autoSaveTimer'

\* this step is the onSuspend listener resuming after its remove of the marker
ShutdownStep == extensionRunning /\ ~extensionRunning'

\* the steps the failure counter may be set to 0 by
MayZeroCounter ==
  \/ \E c \in Slots : SavedStep(c)
  \/ SettingsChangeStep
  \/ ManualRequest
  \/ ShutdownStep

\* C36: within one lifetime of the service worker the failure counter goes
\* down only to 0, and only by a successful cycle, a settings change, a manual
\* trigger or a clean shutdown; the fired re-enable and the initialization
\* that re-arms the timer after a cooldown leave it at its pre-cooldown value;
\* and whenever the disabled-until marker is non-zero the counter is at least
\* MAX_CONSECUTIVE_FAILURES.
C36_CounterOutlivesCooldown ==
  /\ [](autoSaveDisabledUntil # 0 => autoSaveFailureCount >= MAX_CONSECUTIVE_FAILURES)
  /\ [][/\ autoSaveFailureCount' < autoSaveFailureCount /\ kills' = kills =>
            autoSaveFailureCount' = 0 /\ MayZeroCounter
        /\ InitReturns \/ (reenableTimers' # reenableTimers /\ initPc' # initPc) =>
            UNCHANGED failVars]_vars

\* the cooldown has elapsed, the re-enable has fired and its initialization
\* has armed the timer, with the counter still at the maximum
C36_RearmedWithCounterKept ==
  /\ autoSaveTimer
  /\ hist.done = "armed"
  /\ reenableTimers = {}
  /\ autoSaveDisabledUntil > 0
  /\ now >= autoSaveDisabledUntil
  /\ autoSaveFailureCount >= MAX_CONSECUTIVE_FAILURES

\* this step is the callback of the 3 s notify-then-suspend delay
DelayedSuspendRuns == susp.pc = "timer" /\ susp'.pc # "timer"

\* C37: after handleInactiveTabsSettingsChange has torn the monitor down, the
\* callback of a notify-then-suspend delay that was pending at the teardown
\* does not run, and no sweep starts.
C37_NoCallbackAfterTeardown ==
  [][/\ hist.pending => ~DelayedSuspendRuns
     /\ ~inactiveTabsTimer => ~(sweep.pc = "idle" /\ sweep'.pc # "idle")]_vars

\* the activity map as the running sweep read it
MapRead == IF sweep.pc = "gather" THEN tabActivity ELSE sweep.map

\* this step hands the batch of the running sweep to
\* processInactiveTabsForSuspension
HandedOver == sweep.pc # "idle" /\ susp.pc = "idle" /\ susp'.pc # "idle"

\* this step is the write of the updateTabActivity the sweep awaits
SweepStamped == sweep.pc = "call-set" /\ sweep'.pc # "call-set"

\* C38: every tab in the batch a sweep hands over had a record in the map the
\* sweep read, with sweep-start time minus lastAccessed strictly greater than
\* the timeout of the settings the sweep read; a tab the sweep found without
\* a record is given a record stamped with the time of that call, and is in
\* no batch of that sweep.
C38_BatchMembersPastTimeout ==
  [][/\ HandedOver =>
          \A k \in DOMAIN susp'.batch :
            LET id == susp'.batch[k].id
            IN /\ MapRead[id].present
               /\ sweep.t - MapRead[id].lastAccessed > TimeoutMs(sweep.settings)
     /\ SweepStamped =>
          /\ ~sweep.map[sweep.call.tab].present
          /\ tabActivity'[sweep.call.tab].present
          /\ tabActivity'[sweep.call.tab].lastAccessed = sweep.call.t
          /\ \A k \in DOMAIN sweep'.batch : sweep'.batch[k].id # sweep.call.tab
          /\ \A k \in DOMAIN susp'.batch : susp'.batch[k].id # sweep.call.tab]_vars

\* one sweep has handed tab 1 over and given tab 2, which had no record, a
\* record of its own time
C38_OneBatchedOneStamped ==
  /\ inputs = 0
  /\ susp.pc # "idle"
  /\ Len(susp.batch) = 1
  /\ susp.batch[1].id = 1
  /\ tabs[2].open
  /\ tabActivity[2].present
  /\ tabActivity[2].lastAccessed > StartTime

\* chrome.tabs.discard has been called for the tab
Attempted(id) == \E c \in discards : c.id = id

\* C39: in suspendInactiveTabs a failed discard stops nothing: whatever the
\* outcome of a call, the loop goes on to the next tab of the batch, so that
\* the discard has been attempted for every tab of the batch when the map is
\* read; and after the last call the map is read and written with the
\* records of the batch marked.
C39_FailedDiscardStopsNothing ==
  /\ [](susp.pc = "discard" => \A k \in 1..susp.i : Attempted(susp.batch[k].id))
  /\ [](susp.pc \in {"get", "set"} => \A k \in DOMAIN susp.batch : Attempted(susp.batch[k].id))
  /\ [][susp.pc = "discard" /\ susp' # susp =>
          IF susp.i < Len(susp.batch)
          THEN susp'.pc = "discard" /\ susp'.i = susp.i + 1
          ELSE susp'.pc = "get" /\ localQueue' # <<>>]_vars
  /\ [][susp.pc = "set" /\ susp'.pc = "idle" =>
          \A k \in DOMAIN susp.batch :
            tabActivity'[susp.batch[k].id].present =>
              tabActivity'[susp.batch[k].id].suspended]_vars

\* the discard of the first tab of a batch of two has failed, the second tab
\* has had its call, and the map is about to be written
C39_SecondAttemptedAfterFailure ==
  /\ susp.pc = "set"
  /\ Len(susp.batch) = 2
  /\ \E c \in discards : c.id = susp.batch[1].id /\ ~c.ok
  /\ Attempted(susp.batch[2].id)

\* this step is the write of suspendInactiveTabs being served
MarksWritten == susp.pc = "set" /\ susp'.pc = "idle"

\* the record of the tab becomes suspended in this step
NewlySuspended(id) ==
  /\ tabActivity'[id].present
  /\ tabActivity'[id].suspended
  /\ ~(tabActivity[id].present /\ tabActivity[id].suspended)

\* C40: a tab whose record has suspended = true is not selected by a later
\* sweep until it is accessed again (an access writes suspended = false), and
\* a record is marked suspended only for a tab whose discard call succeeded.
C40_SuspendedMeansDiscarded ==
  [][/\ HandedOver =>
          \A k \in DOMAIN susp'.batch : ~MapRead[susp'.batch[k].id].suspended
     /\ MarksWritten =>
          \A id \in TabIds :
            NewlySuspended(id) => \E c \in discards : c.id = id /\ c.ok]_vars


====
